---- MODULE Spec2Model ----
(***************************************************************************)
(* Fact resolution and statement assembly of sec_parser                    *)
(* (src/sec_parser/extractor.py, models.py, mappings.py).                  *)
(*                                                                         *)
(* Python values are modelled as follows.                                  *)
(*   Optional[T]     a set: None is {}, a present value x is {x}.          *)
(*   date            a day number (only differences in days are used).     *)
(*   date string     a record [kind, day]: kind "none" is None or a        *)
(*                   missing key, kind "bad" is text that strptime         *)
(*                   rejects (such as "n/a"), kind "iso" is the            *)
(*                   zero-padded YYYY-MM-DD text of day `day`.             *)
(*   raw val         a record [kind, num]: kind "none" is None or a        *)
(*                   missing key, kind "bad" is text float() rejects,      *)
(*                   kind "num" is the number num.                         *)
(*   dict            a sequence of entries in insertion order, or a        *)
(*                   function when only lookups are made.                  *)
(***************************************************************************)
EXTENDS Integers, Sequences, FiniteSets, TLC

\* calls is a history variable: the extract calls made on the extractor so
\* far with what each returned, kept only in behaviours that start with
\* calls.keep.
VARIABLES xbrl_facts, facts_by_concept, op, args, result, calls

vars == <<xbrl_facts, facts_by_concept, op, args, result, calls>>

None == {}

Some(x) == {x}

The(o) == CHOOSE x \in o : TRUE

\* No call recorded, and none to be.
NoCalls == [keep |-> FALSE, made |-> {}, again |-> FALSE]

\* The history after a call: unchanged unless calls are kept. again tells
\* whether the call just made repeats an earlier one (same operation, same
\* arguments).
Logged(name, a, returned) ==
    IF calls.keep
    THEN [calls EXCEPT
             !.made = @ \cup {[op |-> name, args |-> a, result |-> returned]},
             !.again = \E c \in calls.made : c.op = name /\ c.args = a]
    ELSE calls

\* ------------------------------------------------------------------ bounds

\* Largest number of observations in one raw payload.
MaxFacts == 2

\* tolerance_days: int = 5
DefaultTolerance == 5

\* ------------------------------------------------------- strings and dates

NoneStr == [kind |-> "none", day |-> 0]

BadStr == [kind |-> "bad", day |-> 0]

Iso(d) == [kind |-> "iso", day |-> d]

NoneVal == [kind |-> "none", num |-> 0]

BadVal == [kind |-> "bad", num |-> 0]

Num(n) == [kind |-> "num", num |-> n]

\* A JSON number where a date text is expected (an end of 20240930).
NumberStr(n) == [kind |-> "number", day |-> n]

\* A JSON integer too large for a float (float() raises OverflowError).
HugeVal == [kind |-> "huge", num |-> 0]

\* _parse_date: None for a falsy argument, None when strptime raises
\* ValueError or the slice of a number raises TypeError, otherwise the date.
parse_date(date_str) ==
    IF date_str.kind = "none" THEN None
    ELSE IF date_str.kind = "bad" THEN None
    ELSE IF date_str.kind = "number" THEN None
    ELSE Some(date_str.day)

\* Python's order on the sort keys x.get('end', '') or '': the empty string
\* (None, missing) is below every date text; zero-padded ISO texts compare as
\* their dates do; the non-date text stands for one that begins with a
\* letter, which is above every digit. Numbers compare with numbers only
\* (SortRaises covers a number met with a text).
KindRank(s) == CASE s.kind = "none" -> 0 [] s.kind = "iso" -> 1 [] s.kind = "bad" -> 2 [] s.kind = "number" -> 3

StrLess(a, b) ==
    \/ KindRank(a) < KindRank(b)
    \/ KindRank(a) = KindRank(b) /\ a.kind \in {"iso", "number"} /\ a.day < b.day

Abs(n) == IF n < 0 THEN -n ELSE n

\* ------------------------------------------------------------- index_facts

\* The dict built for one raw observation `val` of unit `unit_type`.
IndexedFact(val, unit_type) ==
    [value |-> val.val, end |-> val.end, start |-> val.start, fy |-> val.fy,
     fp |-> val.fp, form |-> val.form, filed |-> val.filed, accn |-> val.accn,
     frame |-> val.frame, unit |-> unit_type]

\* for val in values: self.facts_by_concept[concept].append({...})
RECURSIVE AppendValues(_, _, _)
AppendValues(facts, values, unit_type) ==
    IF values = <<>> THEN facts
    ELSE AppendValues(Append(facts, IndexedFact(Head(values), unit_type)),
                      Tail(values), unit_type)

\* for unit_type, values in units.items(): create the concept's list when it
\* is absent, then append every value.
RECURSIVE IndexUnits(_, _, _)
IndexUnits(index, concept, units) ==
    IF units = <<>> THEN index
    ELSE LET u == Head(units)
             old == IF concept \in DOMAIN index THEN index[concept] ELSE <<>>
             new == AppendValues(old, u.values, u.unit)
             index2 == [c \in (DOMAIN index) \cup {concept} |->
                           IF c = concept THEN new ELSE index[c]]
         IN  IndexUnits(index2, concept, Tail(units))

\* for concept, concept_data in <namespace>.items()
RECURSIVE IndexNamespace(_, _)
IndexNamespace(index, concepts) ==
    IF concepts = <<>> THEN index
    ELSE IndexNamespace(IndexUnits(index, Head(concepts).concept, Head(concepts).units),
                        Tail(concepts))

EmptyIndex == [c \in {} |-> <<>>]

\* The namespace of facts_data, {} when it is absent.
NamespaceOf(facts_data, ns) == IF ns \in DOMAIN facts_data THEN facts_data[ns] ELSE <<>>

\* As index_facts, with the dei namespace left out.
IndexFactsUsGaapOnly(facts_data) ==
    IndexNamespace(EmptyIndex, NamespaceOf(facts_data, "us-gaap"))

\* _index_facts: us-gaap first, then dei; no other namespace is read.
index_facts(facts_data) ==
    IndexNamespace(IndexNamespace(EmptyIndex, NamespaceOf(facts_data, "us-gaap")),
                   NamespaceOf(facts_data, "dei"))

\* -------------------------------------------------------- find_fact_value

\* As InsertDesc, with reverse=True forgotten: ascending order.
RECURSIVE InsertAsc(_, _)
InsertAsc(x, t) ==
    IF t = <<>> THEN <<x>>
    ELSE IF StrLess(Head(t).end, x.end) THEN <<Head(t)>> \o InsertAsc(x, Tail(t))
    ELSE <<x>> \o t

\* As InsertDesc, but among facts with equal period ends the one filed
\* later comes first.
RECURSIVE InsertDescLaterFiledFirst(_, _)
InsertDescLaterFiledFirst(x, t) ==
    IF t = <<>> THEN <<x>>
    ELSE IF \/ StrLess(x.end, Head(t).end)
            \/ x.end = Head(t).end /\ StrLess(x.filed, Head(t).filed)
         THEN <<Head(t)>> \o InsertDescLaterFiledFirst(x, Tail(t))
         ELSE <<x>> \o t

\* sorted(..., key=end text, reverse=True): stable, so facts with equal keys
\* keep their index order.
RECURSIVE InsertDesc(_, _)
InsertDesc(x, t) ==
    IF t = <<>> THEN <<x>>
    ELSE IF StrLess(x.end, Head(t).end) THEN <<Head(t)>> \o InsertDesc(x, Tail(t))
    ELSE <<x>> \o t

\* As sorted_facts, without the sort: the facts in index order.
SortedFactsIndexOrder(facts) == facts

RECURSIVE sorted_facts(_)
sorted_facts(facts) ==
    IF facts = <<>> THEN <<>> ELSE InsertDesc(Head(facts), sorted_facts(Tail(facts)))

\* As FormOk, with the form check left out.
FormOkAlways(fact, form_type) == TRUE

\* if form_type and fact.get('form') != form_type: continue
FormOk(fact, form_type) == form_type = None \/ fact.form = The(form_type)

\* As EndOk, without abs(): a fact ending long before the target passes.
EndOkNoAbs(fact, period_end, tolerance_days) ==
    LET fact_end == parse_date(fact.end)
    IN  /\ fact_end # None
        /\ The(fact_end) - period_end <= tolerance_days

\* As EndOk, with the comparison exclusive.
EndOkExclusive(fact, period_end, tolerance_days) ==
    LET fact_end == parse_date(fact.end)
    IN  /\ fact_end # None
        /\ Abs(The(fact_end) - period_end) < tolerance_days

\* fact_end parsed and abs((fact_end - period_end).days) <= tolerance_days
EndOk(fact, period_end, tolerance_days) ==
    LET fact_end == parse_date(fact.end)
    IN  /\ fact_end # None
        /\ Abs(The(fact_end) - period_end) <= tolerance_days

\* As StartOk, with the start check left out.
StartOkAlways(fact, period_start, tolerance_days) == TRUE

\* if period_start: when the fact's start parses, it must be within tolerance
StartOk(fact, period_start, tolerance_days) ==
    \/ period_start = None
    \/ LET fact_start == parse_date(fact.start)
       IN  \/ fact_start = None
           \/ Abs(The(fact_start) - The(period_start)) <= tolerance_days

\* value = fact['value']; a None value falls through to the next fact and a
\* value float() rejects is skipped by the except clause.
ValueOk(fact) == fact.value.kind = "num"

\* As ScanFacts, but a fact outside the end-date tolerance ends the scan
\* (break in place of continue).
RECURSIVE ScanFactsStopAtEndMiss(_, _, _, _, _)
ScanFactsStopAtEndMiss(facts, period_end, period_start, form_type, tolerance_days) ==
    IF facts = <<>> THEN None
    ELSE LET fact == Head(facts)
             rest == ScanFactsStopAtEndMiss(Tail(facts), period_end, period_start,
                                            form_type, tolerance_days)
         IN  IF ~FormOk(fact, form_type) THEN rest
             ELSE IF ~EndOk(fact, period_end, tolerance_days) THEN None
             ELSE IF ~StartOk(fact, period_start, tolerance_days) THEN rest
             ELSE IF ~ValueOk(fact) THEN rest
             ELSE Some(fact.value.num)

\* for fact in sorted_facts: the first fact passing every check is returned.
RECURSIVE ScanFacts(_, _, _, _, _)
ScanFacts(facts, period_end, period_start, form_type, tolerance_days) ==
    IF facts = <<>> THEN None
    ELSE LET fact == Head(facts)
             rest == ScanFacts(Tail(facts), period_end, period_start, form_type,
                               tolerance_days)
         IN  IF ~FormOk(fact, form_type) THEN rest
             ELSE IF ~EndOk(fact, period_end, tolerance_days) THEN rest
             ELSE IF ~StartOk(fact, period_start, tolerance_days) THEN rest
             ELSE IF ~ValueOk(fact) THEN rest
             ELSE Some(fact.value.num)

NoResult == <<None, None>>

\* _find_fact_value: fiscal_year and fiscal_period are accepted and not read.
\* As ScanCandidates, but a later candidate's match replaces an earlier one's.
RECURSIVE ScanCandidatesLastWins(_, _, _, _, _, _)
ScanCandidatesLastWins(index, tag_candidates, period_end, period_start, form_type, tolerance_days) ==
    IF tag_candidates = <<>> THEN NoResult
    ELSE LET tag == Head(tag_candidates)
             rest == ScanCandidatesLastWins(index, Tail(tag_candidates), period_end,
                                            period_start, form_type, tolerance_days)
         IN  IF rest # NoResult THEN rest
             ELSE IF tag \notin DOMAIN index THEN NoResult
             ELSE LET hit == ScanFacts(sorted_facts(index[tag]), period_end,
                                       period_start, form_type, tolerance_days)
                  IN  IF hit = None THEN NoResult ELSE <<hit, Some(tag)>>

\* As ScanCandidates, but the tag reported is the first candidate the index
\* holds, whichever candidate's observation gave the value.
RECURSIVE ScanCandidatesFirstIndexedTag(_, _, _, _, _, _)
ScanCandidatesFirstIndexedTag(index, tag_candidates, period_end, period_start, form_type, tolerance_days) ==
    IF tag_candidates = <<>> THEN NoResult
    ELSE LET tag == Head(tag_candidates)
             rest == ScanCandidatesFirstIndexedTag(index, Tail(tag_candidates), period_end,
                                                   period_start, form_type, tolerance_days)
         IN  IF tag \notin DOMAIN index THEN rest
             ELSE LET hit == ScanFacts(sorted_facts(index[tag]), period_end,
                                       period_start, form_type, tolerance_days)
                  IN  IF hit # None THEN <<hit, Some(tag)>>
                      ELSE IF rest = NoResult THEN NoResult
                      ELSE <<rest[1], Some(tag)>>

\* The facts in ascending distance of their period end from the target,
\* index order among equals; facts without a date last.
RECURSIVE InsertNearest(_, _, _)
InsertNearest(x, t, period_end) ==
    IF t = <<>> THEN <<x>>
    ELSE IF \/ parse_date(x.end) = None
            \/ /\ parse_date(Head(t).end) # None
               /\ Abs(The(parse_date(Head(t).end)) - period_end)
                     <= Abs(The(parse_date(x.end)) - period_end)
         THEN <<Head(t)>> \o InsertNearest(x, Tail(t), period_end)
         ELSE <<x>> \o t

RECURSIVE NearestFirst(_, _)
NearestFirst(facts, period_end) ==
    IF facts = <<>> THEN <<>>
    ELSE InsertNearest(Head(facts), NearestFirst(Tail(facts), period_end), period_end)

\* As ScanCandidates, but each candidate's facts are gone through from the
\* one nearest to the target period end.
RECURSIVE ScanCandidatesNearest(_, _, _, _, _, _)
ScanCandidatesNearest(index, tag_candidates, period_end, period_start, form_type, tolerance_days) ==
    IF tag_candidates = <<>> THEN NoResult
    ELSE LET tag == Head(tag_candidates)
             rest == ScanCandidatesNearest(index, Tail(tag_candidates), period_end,
                                           period_start, form_type, tolerance_days)
         IN  IF tag \notin DOMAIN index THEN rest
             ELSE LET hit == ScanFacts(NearestFirst(index[tag], period_end), period_end,
                                       period_start, form_type, tolerance_days)
                  IN  IF hit = None THEN rest ELSE <<hit, Some(tag)>>

RECURSIVE ScanCandidates(_, _, _, _, _, _)
ScanCandidates(index, tag_candidates, period_end, period_start, form_type, tolerance_days) ==
    IF tag_candidates = <<>> THEN NoResult
    ELSE LET tag == Head(tag_candidates)
             rest == ScanCandidates(index, Tail(tag_candidates), period_end,
                                    period_start, form_type, tolerance_days)
         IN  IF tag \notin DOMAIN index THEN rest
             ELSE LET hit == ScanFacts(sorted_facts(index[tag]), period_end,
                                       period_start, form_type, tolerance_days)
                  IN  IF hit = None THEN rest ELSE <<hit, Some(tag)>>

\* As find_fact_value, but only the observations of the fiscal year and
\* fiscal period asked for are gone through.
FindFactValueOfFiscalPeriod(index, a) ==
    LET SamePeriod(fact) == fact.fy = a.fiscal_year /\ fact.fp = a.fiscal_period
    IN  ScanCandidates([c \in DOMAIN index |-> SelectSeq(index[c], SamePeriod)],
                       a.tag_candidates, a.period_end, a.period_start,
                       a.form_type, a.tolerance_days)

find_fact_value(index, a) ==
    ScanCandidates(index, a.tag_candidates, a.period_end, a.period_start,
                   a.form_type, a.tolerance_days)

\* sorted(..., key=lambda x: x.get('end', '') or ''): the keys are compared
\* with <, which raises TypeError between a str and an int. Any sort of a
\* list holding both compares such a pair.
SortRaises(facts) ==
    \E i, j \in 1..Len(facts) :
        facts[i].end.kind = "number" /\ facts[j].end.kind # "number"

\* The exception that leaves the loop over one candidate's sorted facts:
\* float(value) raises OverflowError, which except (ValueError, TypeError)
\* does not catch, when the scan reaches such a fact before it returns.
RECURSIVE ScanRaises(_, _, _, _, _)
ScanRaises(facts, period_end, period_start, form_type, tolerance_days) ==
    IF facts = <<>> THEN None
    ELSE LET fact == Head(facts)
             rest == ScanRaises(Tail(facts), period_end, period_start, form_type,
                                tolerance_days)
         IN  IF ~FormOk(fact, form_type) THEN rest
             ELSE IF ~EndOk(fact, period_end, tolerance_days) THEN rest
             ELSE IF ~StartOk(fact, period_start, tolerance_days) THEN rest
             ELSE IF fact.value.kind = "huge" THEN Some("OverflowError")
             ELSE IF ~ValueOk(fact) THEN rest
             ELSE None

\* The exception that leaves _find_fact_value, None when it returns: the
\* candidates are gone through as ScanCandidates does, up to the first
\* that raises or returns.
RECURSIVE CandidatesRaise(_, _, _, _, _, _)
CandidatesRaise(index, tag_candidates, period_end, period_start, form_type, tolerance_days) ==
    IF tag_candidates = <<>> THEN None
    ELSE LET tag == Head(tag_candidates)
             rest == CandidatesRaise(index, Tail(tag_candidates), period_end,
                                     period_start, form_type, tolerance_days)
         IN  IF tag \notin DOMAIN index THEN rest
             ELSE IF SortRaises(index[tag]) THEN Some("TypeError")
             ELSE LET facts == sorted_facts(index[tag])
                      exc == ScanRaises(facts, period_end, period_start, form_type,
                                        tolerance_days)
                  IN  IF exc # None THEN exc
                      ELSE IF ScanFacts(facts, period_end, period_start, form_type,
                                        tolerance_days) # None THEN None
                      ELSE rest

find_fact_raises(index, a) ==
    CandidatesRaise(index, a.tag_candidates, a.period_end, a.period_start,
                    a.form_type, a.tolerance_days)

\* As IndexAfterQuery, with list.sort() in place of sorted(): the lists of
\* the candidates are left in descending order of period end.
IndexAfterQuerySortedInPlace(index, tag_candidates) ==
    [c \in DOMAIN index |->
        IF \E i \in DOMAIN tag_candidates : tag_candidates[i] = c
        THEN sorted_facts(index[c])
        ELSE index[c]]

\* self.facts_by_concept once _find_fact_value is over: sorted() builds a
\* new list, and nothing else in the method refers to the index.
IndexAfterQuery(index, tag_candidates) == index

\* self.facts_by_concept once an extract_* loop over `table` is over.
RECURSIVE IndexAfterTable(_, _)
IndexAfterTable(index, table) ==
    IF table = <<>> THEN index
    ELSE IndexAfterTable(IndexAfterQuery(index, Head(table).tags), Tail(table))

\* A call's outcome: the exception that left it, or what it returned.
Raised(exc) == [raised |-> exc]

IsRaised(outcome) == "raised" \in DOMAIN outcome

Outcome(exc, returned) == IF exc # None THEN Raised(The(exc)) ELSE returned

\* ------------------------------------------------------ mappings (tables)

\* Logical item key -> tag candidates, in the dict's declared order.
INCOME_STATEMENT_TAGS ==
  <<
    [key |-> "revenue",
     tags |-> <<
            "RevenueFromContractWithCustomerExcludingAssessedTax",
            "Revenues",
            "SalesRevenueNet",
            "SalesRevenueGoodsNet",
            "RevenueFromContractWithCustomerIncludingAssessedTax">>],
    [key |-> "cost_of_revenue",
     tags |-> <<
            "CostOfGoodsAndServicesSold",
            "CostOfRevenue",
            "CostOfGoodsSold",
            "CostOfServices">>],
    [key |-> "gross_profit",
     tags |-> <<
            "GrossProfit">>],
    [key |-> "research_and_development",
     tags |-> <<
            "ResearchAndDevelopmentExpense",
            "ResearchAndDevelopmentExpenseExcludingAcquiredInProcessCost">>],
    [key |-> "selling_general_admin",
     tags |-> <<
            "SellingGeneralAndAdministrativeExpense",
            "SellingAndMarketingExpense",
            "GeneralAndAdministrativeExpense">>],
    [key |-> "operating_expenses",
     tags |-> <<
            "OperatingExpenses",
            "CostsAndExpenses">>],
    [key |-> "operating_income",
     tags |-> <<
            "OperatingIncomeLoss">>],
    [key |-> "interest_expense",
     tags |-> <<
            "InterestExpense",
            "InterestExpenseDebt">>],
    [key |-> "interest_income",
     tags |-> <<
            "InterestAndDividendIncomeOperating",
            "InvestmentIncomeInterest",
            "InterestIncomeOther">>],
    [key |-> "other_income_expense",
     tags |-> <<
            "OtherNonoperatingIncomeExpense",
            "NonoperatingIncomeExpense">>],
    [key |-> "income_before_tax",
     tags |-> <<
            "IncomeLossFromContinuingOperationsBeforeIncomeTaxesExtraordinaryItemsNoncontrollingInterest",
            "IncomeLossFromContinuingOperationsBeforeIncomeTaxesMinorityInterestAndIncomeLossFromEquityMethodInvestments">>],
    [key |-> "income_tax_expense",
     tags |-> <<
            "IncomeTaxExpenseBenefit">>],
    [key |-> "net_income",
     tags |-> <<
            "NetIncomeLoss",
            "ProfitLoss",
            "NetIncomeLossAvailableToCommonStockholdersBasic">>],
    [key |-> "eps_basic",
     tags |-> <<
            "EarningsPerShareBasic">>],
    [key |-> "eps_diluted",
     tags |-> <<
            "EarningsPerShareDiluted">>],
    [key |-> "shares_basic",
     tags |-> <<
            "WeightedAverageNumberOfSharesOutstandingBasic">>],
    [key |-> "shares_diluted",
     tags |-> <<
            "WeightedAverageNumberOfDilutedSharesOutstanding">>]
  >>

\* Balance sheet keys and tag candidates.
BALANCE_SHEET_TAGS ==
  <<
    [key |-> "cash_and_equivalents",
     tags |-> <<
            "CashAndCashEquivalentsAtCarryingValue",
            "Cash",
            "CashCashEquivalentsRestrictedCashAndRestrictedCashEquivalents">>],
    [key |-> "short_term_investments",
     tags |-> <<
            "ShortTermInvestments",
            "MarketableSecuritiesCurrent",
            "AvailableForSaleSecuritiesDebtSecuritiesCurrent">>],
    [key |-> "accounts_receivable",
     tags |-> <<
            "AccountsReceivableNetCurrent",
            "ReceivablesNetCurrent">>],
    [key |-> "inventory",
     tags |-> <<
            "InventoryNet",
            "InventoryFinishedGoodsAndWorkInProcess">>],
    [key |-> "prepaid_expenses",
     tags |-> <<
            "PrepaidExpenseAndOtherAssetsCurrent",
            "PrepaidExpenseCurrent">>],
    [key |-> "total_current_assets",
     tags |-> <<
            "AssetsCurrent">>],
    [key |-> "property_plant_equipment",
     tags |-> <<
            "PropertyPlantAndEquipmentNet">>],
    [key |-> "goodwill",
     tags |-> <<
            "Goodwill">>],
    [key |-> "intangible_assets",
     tags |-> <<
            "IntangibleAssetsNetExcludingGoodwill",
            "FiniteLivedIntangibleAssetsNet">>],
    [key |-> "long_term_investments",
     tags |-> <<
            "LongTermInvestments",
            "MarketableSecuritiesNoncurrent">>],
    [key |-> "other_assets",
     tags |-> <<
            "OtherAssetsNoncurrent">>],
    [key |-> "total_assets",
     tags |-> <<
            "Assets">>],
    [key |-> "accounts_payable",
     tags |-> <<
            "AccountsPayableCurrent">>],
    [key |-> "accrued_liabilities",
     tags |-> <<
            "AccruedLiabilitiesCurrent",
            "EmployeeRelatedLiabilitiesCurrent">>],
    [key |-> "deferred_revenue_current",
     tags |-> <<
            "DeferredRevenueCurrent",
            "ContractWithCustomerLiabilityCurrent">>],
    [key |-> "short_term_debt",
     tags |-> <<
            "ShortTermBorrowings",
            "DebtCurrent">>],
    [key |-> "current_portion_long_term_debt",
     tags |-> <<
            "LongTermDebtCurrent">>],
    [key |-> "total_current_liabilities",
     tags |-> <<
            "LiabilitiesCurrent">>],
    [key |-> "long_term_debt",
     tags |-> <<
            "LongTermDebtNoncurrent",
            "LongTermDebt">>],
    [key |-> "deferred_tax_liabilities",
     tags |-> <<
            "DeferredIncomeTaxLiabilitiesNet">>],
    [key |-> "other_liabilities",
     tags |-> <<
            "OtherLiabilitiesNoncurrent">>],
    [key |-> "total_liabilities",
     tags |-> <<
            "Liabilities">>],
    [key |-> "common_stock",
     tags |-> <<
            "CommonStockValue",
            "CommonStocksIncludingAdditionalPaidInCapital">>],
    [key |-> "additional_paid_in_capital",
     tags |-> <<
            "AdditionalPaidInCapitalCommonStock",
            "AdditionalPaidInCapital">>],
    [key |-> "retained_earnings",
     tags |-> <<
            "RetainedEarningsAccumulatedDeficit">>],
    [key |-> "accumulated_other_comprehensive_income",
     tags |-> <<
            "AccumulatedOtherComprehensiveIncomeLossNetOfTax">>],
    [key |-> "treasury_stock",
     tags |-> <<
            "TreasuryStockValue">>],
    [key |-> "total_stockholders_equity",
     tags |-> <<
            "StockholdersEquity",
            "StockholdersEquityIncludingPortionAttributableToNoncontrollingInterest">>],
    [key |-> "total_liabilities_and_equity",
     tags |-> <<
            "LiabilitiesAndStockholdersEquity">>]
  >>

\* Cash flow keys and tag candidates.
CASH_FLOW_TAGS ==
  <<
    [key |-> "net_income_cf",
     tags |-> <<
            "NetIncomeLoss",
            "ProfitLoss">>],
    [key |-> "depreciation_amortization",
     tags |-> <<
            "DepreciationDepletionAndAmortization",
            "DepreciationAndAmortization">>],
    [key |-> "stock_based_compensation",
     tags |-> <<
            "ShareBasedCompensation",
            "AllocatedShareBasedCompensationExpense">>],
    [key |-> "deferred_income_taxes",
     tags |-> <<
            "DeferredIncomeTaxExpenseBenefit">>],
    [key |-> "change_in_receivables",
     tags |-> <<
            "IncreaseDecreaseInAccountsReceivable">>],
    [key |-> "change_in_inventory",
     tags |-> <<
            "IncreaseDecreaseInInventories">>],
    [key |-> "change_in_payables",
     tags |-> <<
            "IncreaseDecreaseInAccountsPayable">>],
    [key |-> "other_operating_activities",
     tags |-> <<
            "OtherOperatingActivitiesCashFlowStatement">>],
    [key |-> "net_cash_from_operating",
     tags |-> <<
            "NetCashProvidedByUsedInOperatingActivities">>],
    [key |-> "capital_expenditures",
     tags |-> <<
            "PaymentsToAcquirePropertyPlantAndEquipment",
            "PaymentsToAcquireProductiveAssets">>],
    [key |-> "acquisitions",
     tags |-> <<
            "PaymentsToAcquireBusinessesNetOfCashAcquired">>],
    [key |-> "purchases_of_investments",
     tags |-> <<
            "PaymentsToAcquireInvestments",
            "PaymentsToAcquireAvailableForSaleSecuritiesDebt">>],
    [key |-> "sales_of_investments",
     tags |-> <<
            "ProceedsFromSaleOfAvailableForSaleSecuritiesDebt",
            "ProceedsFromSaleAndMaturityOfMarketableSecurities">>],
    [key |-> "net_cash_from_investing",
     tags |-> <<
            "NetCashProvidedByUsedInInvestingActivities">>],
    [key |-> "debt_repayment",
     tags |-> <<
            "RepaymentsOfLongTermDebt",
            "RepaymentsOfDebt">>],
    [key |-> "debt_issuance",
     tags |-> <<
            "ProceedsFromIssuanceOfLongTermDebt",
            "ProceedsFromDebtNetOfIssuanceCosts">>],
    [key |-> "share_repurchases",
     tags |-> <<
            "PaymentsForRepurchaseOfCommonStock">>],
    [key |-> "dividends_paid",
     tags |-> <<
            "PaymentsOfDividendsCommonStock",
            "PaymentsOfDividends">>],
    [key |-> "stock_issuance",
     tags |-> <<
            "ProceedsFromIssuanceOfCommonStock",
            "ProceedsFromStockOptionsExercised">>],
    [key |-> "net_cash_from_financing",
     tags |-> <<
            "NetCashProvidedByUsedInFinancingActivities">>],
    [key |-> "effect_of_exchange_rate",
     tags |-> <<
            "EffectOfExchangeRateOnCashCashEquivalentsRestrictedCashAndRestrictedCashEquivalents",
            "EffectOfExchangeRateOnCashAndCashEquivalents">>],
    [key |-> "net_change_in_cash",
     tags |-> <<
            "CashCashEquivalentsRestrictedCashAndRestrictedCashEquivalentsPeriodIncreaseDecreaseIncludingExchangeRateEffect",
            "CashAndCashEquivalentsPeriodIncreaseDecrease">>]
  >>

\* Items negated for display.
NEGATED_ITEMS ==
    {"cost_of_revenue",
     "research_and_development",
     "selling_general_admin",
     "operating_expenses",
     "interest_expense",
     "income_tax_expense",
     "capital_expenditures",
     "acquisitions",
     "purchases_of_investments",
     "debt_repayment",
     "share_repurchases",
     "dividends_paid",
     "treasury_stock"}

\* Human-readable labels.
LABELS ==
    ("revenue" :> "Revenue") @@
    ("cost_of_revenue" :> "Cost of Revenue") @@
    ("gross_profit" :> "Gross Profit") @@
    ("research_and_development" :> "Research & Development") @@
    ("selling_general_admin" :> "Selling, General & Administrative") @@
    ("operating_expenses" :> "Operating Expenses") @@
    ("operating_income" :> "Operating Income") @@
    ("interest_expense" :> "Interest Expense") @@
    ("interest_income" :> "Interest Income") @@
    ("other_income_expense" :> "Other Income (Expense)") @@
    ("income_before_tax" :> "Income Before Tax") @@
    ("income_tax_expense" :> "Income Tax Expense") @@
    ("net_income" :> "Net Income") @@
    ("eps_basic" :> "EPS (Basic)") @@
    ("eps_diluted" :> "EPS (Diluted)") @@
    ("shares_basic" :> "Shares Outstanding (Basic)") @@
    ("shares_diluted" :> "Shares Outstanding (Diluted)") @@
    ("cash_and_equivalents" :> "Cash & Cash Equivalents") @@
    ("short_term_investments" :> "Short-Term Investments") @@
    ("accounts_receivable" :> "Accounts Receivable") @@
    ("inventory" :> "Inventory") @@
    ("prepaid_expenses" :> "Prepaid Expenses") @@
    ("total_current_assets" :> "Total Current Assets") @@
    ("property_plant_equipment" :> "Property, Plant & Equipment") @@
    ("goodwill" :> "Goodwill") @@
    ("intangible_assets" :> "Intangible Assets") @@
    ("long_term_investments" :> "Long-Term Investments") @@
    ("other_assets" :> "Other Assets") @@
    ("total_assets" :> "Total Assets") @@
    ("accounts_payable" :> "Accounts Payable") @@
    ("accrued_liabilities" :> "Accrued Liabilities") @@
    ("deferred_revenue_current" :> "Deferred Revenue (Current)") @@
    ("short_term_debt" :> "Short-Term Debt") @@
    ("current_portion_long_term_debt" :> "Current Portion of Long-Term Debt") @@
    ("total_current_liabilities" :> "Total Current Liabilities") @@
    ("long_term_debt" :> "Long-Term Debt") @@
    ("deferred_tax_liabilities" :> "Deferred Tax Liabilities") @@
    ("other_liabilities" :> "Other Liabilities") @@
    ("total_liabilities" :> "Total Liabilities") @@
    ("common_stock" :> "Common Stock") @@
    ("additional_paid_in_capital" :> "Additional Paid-In Capital") @@
    ("retained_earnings" :> "Retained Earnings") @@
    ("accumulated_other_comprehensive_income" :> "Accumulated Other Comprehensive Income") @@
    ("treasury_stock" :> "Treasury Stock") @@
    ("total_stockholders_equity" :> "Total Stockholders' Equity") @@
    ("total_liabilities_and_equity" :> "Total Liabilities & Equity") @@
    ("net_income_cf" :> "Net Income") @@
    ("depreciation_amortization" :> "Depreciation & Amortization") @@
    ("stock_based_compensation" :> "Stock-Based Compensation") @@
    ("deferred_income_taxes" :> "Deferred Income Taxes") @@
    ("change_in_receivables" :> "Change in Receivables") @@
    ("change_in_inventory" :> "Change in Inventory") @@
    ("change_in_payables" :> "Change in Payables") @@
    ("other_operating_activities" :> "Other Operating Activities") @@
    ("net_cash_from_operating" :> "Net Cash from Operating Activities") @@
    ("capital_expenditures" :> "Capital Expenditures") @@
    ("acquisitions" :> "Acquisitions") @@
    ("purchases_of_investments" :> "Purchases of Investments") @@
    ("sales_of_investments" :> "Sales of Investments") @@
    ("net_cash_from_investing" :> "Net Cash from Investing Activities") @@
    ("debt_repayment" :> "Debt Repayment") @@
    ("debt_issuance" :> "Debt Issuance") @@
    ("share_repurchases" :> "Share Repurchases") @@
    ("dividends_paid" :> "Dividends Paid") @@
    ("stock_issuance" :> "Stock Issuance") @@
    ("net_cash_from_financing" :> "Net Cash from Financing Activities") @@
    ("effect_of_exchange_rate" :> "Effect of Exchange Rate") @@
    ("net_change_in_cash" :> "Net Change in Cash")

\* ------------------------------------------------------ statement assembly

\* LABELS.get(key, key)
LabelOf(key) == IF key \in DOMAIN LABELS THEN LABELS[key] ELSE key

\* As LineItem, with the flag taken from the sign of the value instead of
\* the key.
LineItemFlagBySign(key, matched_tag, value, period_start, period_end) ==
    [label |-> LabelOf(key),
     xbrl_tag |-> IF matched_tag = None THEN "" ELSE The(matched_tag),
     value |-> value,
     period_end |-> period_end,
     period_start |-> period_start,
     decimals |-> -6,
     is_negated |-> value # None /\ The(value) < 0]

\* LineItem(label=..., xbrl_tag=matched_tag or "", value=value,
\*          period_start=..., period_end=..., is_negated=key in NEGATED_ITEMS);
\* decimals keeps its default.
LineItem(key, matched_tag, value, period_start, period_end) ==
    [label |-> LabelOf(key),
     xbrl_tag |-> IF matched_tag = None THEN "" ELSE The(matched_tag),
     value |-> value,
     period_end |-> period_end,
     period_start |-> period_start,
     decimals |-> -6,
     is_negated |-> key \in NEGATED_ITEMS]

\* FinancialStatement.add_line_item: self.line_items[key] = item. A key
\* already present keeps its position; a new key goes last.
add_line_item(line_items, key, item) ==
    IF \E i \in 1..Len(line_items) : line_items[i].key = key
    THEN [i \in 1..Len(line_items) |->
             IF line_items[i].key = key THEN [key |-> key, item |-> item]
             ELSE line_items[i]]
    ELSE Append(line_items, [key |-> key, item |-> item])

\* As AddIfFound, without the test: an unresolved key gets a line item whose
\* value is None.
AddAlways(line_items, key, found, period_start, period_end) ==
    add_line_item(line_items, key,
                  LineItem(key, found[2], found[1], period_start, period_end))

\* if value is not None: statement.add_line_item(key, LineItem(...))
AddIfFound(line_items, key, found, period_start, period_end) ==
    IF found[1] # None
    THEN add_line_item(line_items, key,
                       LineItem(key, found[2], found[1], period_start, period_end))
    ELSE line_items

\* As AssembleItems, but a line item records the period of the observation
\* that was matched instead of the period asked for.
RECURSIVE AssembleItemsFactPeriod(_, _, _, _)
AssembleItemsFactPeriod(index, table, a, line_items) ==
    IF table = <<>> THEN line_items
    ELSE LET entry == Head(table)
             found == find_fact_value(index,
                         [tag_candidates |-> entry.tags,
                          period_end |-> a.period_end,
                          period_start |-> a.period_start,
                          fiscal_year |-> a.fiscal_year,
                          fiscal_period |-> a.fiscal_period,
                          form_type |-> a.form_type,
                          tolerance_days |-> DefaultTolerance])
             facts == index[The(found[2])]
             fact == facts[CHOOSE i \in DOMAIN facts : facts[i].value = Num(The(found[1]))]
         IN  AssembleItemsFactPeriod(index, Tail(table), a,
                IF found[1] = None THEN line_items
                ELSE add_line_item(line_items, entry.key,
                                   LineItem(entry.key, found[2], found[1],
                                            parse_date(fact.start), fact.end.day)))

\* for key, tag_candidates in <TABLE>.items(): resolve, then add when found.
\* extract_* pass no tolerance, so the resolver's default applies.
RECURSIVE AssembleItems(_, _, _, _)
AssembleItems(index, table, a, line_items) ==
    IF table = <<>> THEN line_items
    ELSE LET entry == Head(table)
             found == find_fact_value(index,
                         [tag_candidates |-> entry.tags,
                          period_end |-> a.period_end,
                          period_start |-> a.period_start,
                          fiscal_year |-> a.fiscal_year,
                          fiscal_period |-> a.fiscal_period,
                          form_type |-> a.form_type,
                          tolerance_days |-> DefaultTolerance])
         IN  AssembleItems(index, Tail(table), a,
                           AddIfFound(line_items, entry.key, found,
                                      a.period_start, a.period_end))

\* dict.update
RECURSIVE PutAll(_, _)
PutAll(line_items, more) ==
    IF more = <<>> THEN line_items
    ELSE PutAll(add_line_item(line_items, Head(more).key, Head(more).item), Tail(more))

\* As FinancialStatement, with line_items one dict shared by every instance
\* instead of a fresh one per instance: a statement starts with the items of
\* the statement made before it.
FinancialStatementSharedItems(statement_type, a, line_items) ==
    [statement_type |-> statement_type,
     period_end |-> a.period_end,
     period_start |-> a.period_start,
     fiscal_year |-> a.fiscal_year,
     fiscal_period |-> a.fiscal_period,
     line_items |->
        IF op \in {"extract_income_statement", "extract_balance_sheet", "extract_cash_flow"}
        THEN PutAll(result.line_items, line_items)
        ELSE line_items]

\* FinancialStatement(...): line_items is a fresh dict (default_factory).
FinancialStatement(statement_type, a, line_items) ==
    [statement_type |-> statement_type,
     period_end |-> a.period_end,
     period_start |-> a.period_start,
     fiscal_year |-> a.fiscal_year,
     fiscal_period |-> a.fiscal_period,
     line_items |-> line_items]

extract_income_statement(index, a) ==
    FinancialStatement("income_statement", a,
                       AssembleItems(index, INCOME_STATEMENT_TAGS, a, <<>>))

\* As extract_balance_sheet, resolving as the two duration statements do:
\* the start of the period is passed to the resolver.
ExtractBalanceSheetAsDuration(index, a) ==
    LET duration == [a EXCEPT !.period_start = Some(a.period_end - 1)]
    IN  FinancialStatement("balance_sheet", a,
                           AssembleItems(index, BALANCE_SHEET_TAGS, duration, <<>>))

\* The balance sheet is an instant: no period start reaches the resolver, the
\* statement or its line items.
extract_balance_sheet(index, a) ==
    LET instant == [a EXCEPT !.period_start = None]
    IN  FinancialStatement("balance_sheet", instant,
                           AssembleItems(index, BALANCE_SHEET_TAGS, instant, <<>>))

\* As extract_cash_flow, with the candidates of net_income_cf in the other
\* order.
ExtractCashFlowProfitLossFirst(index, a) ==
    LET table == [i \in DOMAIN CASH_FLOW_TAGS |->
                     IF CASH_FLOW_TAGS[i].key = "net_income_cf"
                     THEN [CASH_FLOW_TAGS[i] EXCEPT !.tags = <<"ProfitLoss", "NetIncomeLoss">>]
                     ELSE CASH_FLOW_TAGS[i]]
    IN  FinancialStatement("cash_flow", a, AssembleItems(index, table, a, <<>>))

extract_cash_flow(index, a) ==
    FinancialStatement("cash_flow", a,
                       AssembleItems(index, CASH_FLOW_TAGS, a, <<>>))

\* The exception that leaves an extract_* loop, None when it runs to its
\* end: no call of the resolver is inside a try, so the first that raises
\* ends the extraction.
RECURSIVE AssembleRaises(_, _, _)
AssembleRaises(index, table, a) ==
    IF table = <<>> THEN None
    ELSE LET exc == find_fact_raises(index,
                        [tag_candidates |-> Head(table).tags,
                         period_end |-> a.period_end,
                         period_start |-> a.period_start,
                         fiscal_year |-> a.fiscal_year,
                         fiscal_period |-> a.fiscal_period,
                         form_type |-> a.form_type,
                         tolerance_days |-> DefaultTolerance])
         IN  IF exc # None THEN exc ELSE AssembleRaises(index, Tail(table), a)

\* ------------------------------------------------------------ raw payloads

\* One observation of a unit array of the company-facts payload. The fields
\* the resolver never reads carry one fixed value.
RawObs(end, form, start, val) ==
    [val |-> val, end |-> end, start |-> start, fy |-> 2024, fp |-> "FY",
     form |-> form, filed |-> Iso(0), accn |-> "0000000000-24-000001",
     frame |-> NoneStr]

SeqsUpTo(S, n) == UNION {[1..k -> S] : k \in 0..n}

RECURSIVE Distinct(_)
Distinct(s) ==
    IF s = <<>> THEN <<>>
    ELSE LET h == Head(s)
             IsNot(x) == x # h
         IN  <<h>> \o Distinct(SelectSeq(Tail(s), IsNot))

\* The nested payload (namespace -> concept -> units -> unit -> array) whose
\* observations, read in document order, are `rows`: dict keys in order of
\* first appearance, array elements in row order.
PayloadOf(rows, namespaces) ==
    [ns \in namespaces |->
        LET InNs(r) == r.ns = ns
            nsRows == SelectSeq(rows, InNs)
            concepts == Distinct([i \in 1..Len(nsRows) |-> nsRows[i].concept])
        IN  [i \in 1..Len(concepts) |->
                LET InConcept(r) == r.concept = concepts[i]
                    cRows == SelectSeq(nsRows, InConcept)
                    units == Distinct([k \in 1..Len(cRows) |-> cRows[k].unit])
                IN  [concept |-> concepts[i],
                     units |-> [j \in 1..Len(units) |->
                        LET InUnit(r) == r.unit = units[j]
                            uRows == SelectSeq(cRows, InUnit)
                        IN  [unit |-> units[j],
                             values |-> [k \in 1..Len(uRows) |-> uRows[k].obs]]]]]]

\* --------------------------------------------- the resolver as a function

TagA == "NetIncomeLoss"

TagB == "ProfitLoss"

\* Every non-null value of a payload is distinct, so that a returned value
\* names the observation it came from: the i-th row's value is 1000 + i.
Stamp(rows) ==
    [i \in 1..Len(rows) |->
        IF rows[i].obs.val.kind = "num"
        THEN [rows[i] EXCEPT !.obs.val = Num(1000 + i)]
        ELSE rows[i]]

\* Period ends one day and DefaultTolerance + 1 days after day 0, so that
\* the targets of FindArgs put them 0, 1, DefaultTolerance - 1,
\* DefaultTolerance and DefaultTolerance + 1 days away, on either side.
FindObsA ==
    {RawObs(e, f, s, v) :
        e \in {Iso(1), Iso(DefaultTolerance + 1)},
        f \in {"10-K", "10-Q"},
        s \in {NoneStr, Iso(DefaultTolerance + 1)},
        v \in {NoneVal, Num(0)}}

FindObsB ==
    {RawObs(e, "10-K", NoneStr, v) :
        e \in {Iso(1), Iso(DefaultTolerance + 1)},
        v \in {NoneVal, Num(0)}}

FindRows ==
    [ns : {"us-gaap"}, concept : {TagA}, unit : {"USD"}, obs : FindObsA]
    \cup [ns : {"us-gaap"}, concept : {TagB}, unit : {"USD"}, obs : FindObsB]

FindPayloads ==
    {PayloadOf(Stamp(rows), {"us-gaap"}) : rows \in SeqsUpTo(FindRows, MaxFacts)}

FindArgs ==
    [tag_candidates : {<<TagA, TagB>>, <<TagB, TagA>>},
     period_end : {0, 1, 2, DefaultTolerance, DefaultTolerance + 1, DefaultTolerance + 2},
     period_start : {None, Some(0), Some(1)},
     fiscal_year : {2024},
     fiscal_period : {"FY"},
     form_type : {None, Some("10-K")},
     tolerance_days : {DefaultTolerance}]

InitFind ==
    /\ xbrl_facts \in FindPayloads
    /\ facts_by_concept = index_facts(xbrl_facts)
    /\ op = "call"
    /\ args \in FindArgs
    /\ result = NoResult
    /\ calls = NoCalls

\* self._find_fact_value(tag_candidates, period_end, period_start, ...)
FindFactValue ==
    /\ op = "call"
    /\ op' = "_find_fact_value"
    /\ result' = Outcome(find_fact_raises(facts_by_concept, args),
                         find_fact_value(facts_by_concept, args))
    /\ facts_by_concept' = IndexAfterQuery(facts_by_concept, args.tag_candidates)
    /\ UNCHANGED <<xbrl_facts, args, calls>>

NextFind == FindFactValue

SpecFind == InitFind /\ [][NextFind]_vars

\* ---------------------------------------------------- the extractor object

TagAssets == "Assets"

TagRevenues == "Revenues"

\* Observations whose content varies (period end, start, value), in one
\* namespace and unit; their values are made distinct by Stamp.
ContentObs ==
    {RawObs(e, "10-K", s, v) :
        e \in {Iso(1), Iso(DefaultTolerance + 2)},
        s \in {NoneStr, Iso(DefaultTolerance + 1)},
        v \in {NoneVal, Num(0)}}

ContentRows ==
    [ns : {"us-gaap"}, concept : {TagA, TagRevenues}, unit : {"USD"}, obs : ContentObs]

\* Observations whose place varies: namespace (two the indexer reads and one
\* it does not), concept, unit. Two rows may be the same observation twice.
PlaceObs == {RawObs(Iso(1), "10-K", NoneStr, Num(1000))}

Namespaces == {"us-gaap", "dei", "ifrs-full"}

PlaceRows ==
    [ns : Namespaces, concept : {TagA, TagAssets}, unit : {"USD", "EUR"}, obs : PlaceObs]

Payloads ==
    {PayloadOf(Stamp(rows), Namespaces) : rows \in SeqsUpTo(ContentRows, MaxFacts)}
    \cup {PayloadOf(rows, Namespaces) : rows \in SeqsUpTo(PlaceRows, MaxFacts)}

\* Calls as parse_sec_filing makes them: the period start follows from the
\* period end, and one form type is asked for throughout.
ExtractArgs ==
    {[period_end |-> pe,
      period_start |-> Some(pe - 1),
      fiscal_year |-> 2024,
      fiscal_period |-> "FY",
      form_type |-> Some("10-K")] : pe \in {1, 2}}

\* FinancialExtractor(xbrl_facts, filing_info): the index is built by the
\* constructor.
Init ==
    /\ xbrl_facts \in Payloads
    /\ facts_by_concept = index_facts(xbrl_facts)
    /\ op = "__init__"
    /\ args = None
    /\ result = None
    /\ calls = NoCalls

ExtractIncomeStatement ==
    \E a \in ExtractArgs :
        /\ op' = "extract_income_statement"
        /\ args' = a
        /\ result' = Outcome(AssembleRaises(facts_by_concept, INCOME_STATEMENT_TAGS, a),
                             extract_income_statement(facts_by_concept, a))
        /\ calls' = Logged(op', args', result')
        /\ facts_by_concept' = IndexAfterTable(facts_by_concept, INCOME_STATEMENT_TAGS)
        /\ UNCHANGED xbrl_facts

ExtractBalanceSheet ==
    \E a \in ExtractArgs :
        /\ op' = "extract_balance_sheet"
        /\ args' = [a EXCEPT !.period_start = None]
        /\ result' = Outcome(AssembleRaises(facts_by_concept, BALANCE_SHEET_TAGS, args'),
                             extract_balance_sheet(facts_by_concept, args'))
        /\ calls' = Logged(op', args', result')
        /\ facts_by_concept' = IndexAfterTable(facts_by_concept, BALANCE_SHEET_TAGS)
        /\ UNCHANGED xbrl_facts

ExtractCashFlow ==
    \E a \in ExtractArgs :
        /\ op' = "extract_cash_flow"
        /\ args' = a
        /\ result' = Outcome(AssembleRaises(facts_by_concept, CASH_FLOW_TAGS, a),
                             extract_cash_flow(facts_by_concept, a))
        /\ calls' = Logged(op', args', result')
        /\ facts_by_concept' = IndexAfterTable(facts_by_concept, CASH_FLOW_TAGS)
        /\ UNCHANGED xbrl_facts

Next == ExtractIncomeStatement \/ ExtractBalanceSheet \/ ExtractCashFlow

Spec == Init /\ [][Next]_vars

\* ------------------------------------------------ properties of the resolver

Found == op = "_find_fact_value"

Range(seq) == {seq[i] : i \in DOMAIN seq}

\* The indexed observations of a concept, none when the index lacks it.
Facts(tag) == IF tag \in DOMAIN facts_by_concept THEN facts_by_concept[tag] ELSE <<>>

WithinTolerance(str, target, tol) ==
    str.kind = "iso" /\ (str.day - target) \in (0 - tol)..tol

PassesForm(f, a) == a.form_type = None \/ f.form \in a.form_type

PassesEnd(f, a) == WithinTolerance(f.end, a.period_end, a.tolerance_days)

PassesStart(f, a) ==
    \/ a.period_start = None
    \/ f.start.kind # "iso"
    \/ \E ps \in a.period_start : WithinTolerance(f.start, ps, a.tolerance_days)

\* An acceptable observation: it passes every active filter and carries a
\* number.
Accepts(f, a) ==
    PassesForm(f, a) /\ PassesEnd(f, a) /\ PassesStart(f, a) /\ f.value.kind = "num"

HasAcceptable(tag, a) == \E f \in Range(Facts(tag)) : Accepts(f, a)

\* The resolver returned the value of observation f of concept tag.
Returned(f, tag) == f.value.kind = "num" /\ result = <<Some(f.value.num), Some(tag)>>

\* C1: candidate priority is absolute. The result comes from the earliest
\* candidate of the list that has an acceptable observation, however close
\* to the target a later candidate's observation is.
C1_PriorityAbsolute ==
    Found =>
        LET cands == args.tag_candidates
        IN  \A i \in 1..Len(cands) :
                (/\ HasAcceptable(cands[i], args)
                 /\ \A j \in 1..(i - 1) : ~HasAcceptable(cands[j], args))
                => \E f \in Range(Facts(cands[i])) :
                       Accepts(f, args) /\ Returned(f, cands[i])

\* C1 witness: candidates [A, B], A matched at target + tolerance days, B
\* holding an acceptable observation at exactly the target; A's value is
\* returned.
C1_Witness ==
    /\ Found
    /\ args.tag_candidates = <<TagA, TagB>>
    /\ \E f \in Range(Facts(TagA)), g \in Range(Facts(TagB)) :
          /\ f.end = Iso(args.period_end + args.tolerance_days)
          /\ g.end = Iso(args.period_end)
          /\ Accepts(f, args) /\ Accepts(g, args)
          /\ Returned(f, TagA)

\* C2: the end-date tolerance is inclusive and symmetric. A returned
\* observation is never more than tolerance_days from the target on either
\* side, and an observation at most tolerance_days away, before or after
\* (exactly tolerance_days included), that passes the other filters makes
\* the query resolve.
C2_EndToleranceInclusive ==
    Found =>
        /\ \A tag \in DOMAIN facts_by_concept : \A f \in Range(Facts(tag)) :
              Returned(f, tag) =>
                  /\ f.end.kind = "iso"
                  /\ f.end.day - args.period_end <= args.tolerance_days
                  /\ args.period_end - f.end.day <= args.tolerance_days
        /\ \A i \in 1..Len(args.tag_candidates) :
              \A f \in Range(Facts(args.tag_candidates[i])) :
                  (/\ f.end.kind = "iso"
                   /\ f.end.day - args.period_end <= args.tolerance_days
                   /\ args.period_end - f.end.day <= args.tolerance_days
                   /\ PassesForm(f, args) /\ PassesStart(f, args)
                   /\ f.value.kind = "num")
                  => result[1] # None

\* C2 witness: the returned observation ends exactly tolerance_days before
\* the target.
C2_Witness ==
    /\ Found
    /\ \E tag \in DOMAIN facts_by_concept : \E f \in Range(Facts(tag)) :
          /\ Returned(f, tag)
          /\ f.end.kind = "iso"
          /\ args.period_end - f.end.day = args.tolerance_days

\* Position i of a concept's list comes before position j in the scan: a
\* later period end first, and index order among equal period ends.
Precedes(facts, i, j) ==
    \/ facts[i].end.day > facts[j].end.day
    \/ facts[i].end.day = facts[j].end.day /\ i < j

\* The position scanned first among the positions `among`, all of which
\* carry a parsed period end.
FirstOf(facts, among) ==
    CHOOSE i \in among : \A j \in among \ {i} : Precedes(facts, i, j)

PassesFilters(f, a) == PassesForm(f, a) /\ PassesEnd(f, a) /\ PassesStart(f, a)

FilterIndex(index, Keep(_)) == [c \in DOMAIN index |-> SelectSeq(index[c], Keep)]

\* The index with every observation replaced by Change of it.
MapIndex(index, Change(_)) ==
    [c \in DOMAIN index |-> [i \in DOMAIN index[c] |-> Change(index[c][i])]]

EndTooFar(f, a) == f.end.kind = "iso" /\ ~PassesEnd(f, a)

\* C5: an observation outside the end-date tolerance never ends the scan of
\* its candidate. The result is what it would be with every such observation
\* taken out of the index; and when the first candidate that has an
\* acceptable observation also has an out-of-tolerance one with a later
\* period end, the result is still an in-tolerance observation of that
\* candidate.
C5_EndMissContinues ==
    Found =>
        /\ result = find_fact_value(
                        FilterIndex(facts_by_concept, LAMBDA f : ~EndTooFar(f, args)),
                        args)
        /\ LET cands == args.tag_candidates
           IN  \A i \in 1..Len(cands) :
                  (/\ \A j \in 1..(i - 1) : ~HasAcceptable(cands[j], args)
                   /\ \E f, g \in Range(Facts(cands[i])) :
                         /\ Accepts(f, args)
                         /\ EndTooFar(g, args) /\ PassesForm(g, args)
                         /\ g.end.day > f.end.day)
                  => \E f \in Range(Facts(cands[i])) :
                         PassesEnd(f, args) /\ Returned(f, cands[i])

\* C5 witness: the first candidate holds an observation ending past the
\* tolerance and an earlier-ending one within it, both of the required form,
\* and the one within tolerance is returned.
C5_Witness ==
    /\ Found
    /\ args.form_type # None
    /\ LET tag == args.tag_candidates[1]
       IN  \E f, g \in Range(Facts(tag)) :
              /\ EndTooFar(g, args) /\ PassesForm(g, args)
              /\ g.value.kind = "num"
              /\ g.end.day > f.end.day
              /\ PassesEnd(f, args)
              /\ Returned(f, tag)

\* C6: when no candidate has an acceptable observation, candidates missing
\* from the index included, the result is the pair (None, None).
C6_NoResult ==
    Found =>
        ((\A i \in 1..Len(args.tag_candidates) :
              ~HasAcceptable(args.tag_candidates[i], args))
         => result = NoResult)

\* C6 witness: 10-K observations with values exist for a candidate, the
\* nearest one ends more than tolerance_days before the target, and the
\* query returns no result.
C6_Witness ==
    /\ Found
    /\ result = NoResult
    /\ args.form_type = Some("10-K")
    /\ \E f \in Range(Facts(args.tag_candidates[1])) :
          /\ f.form = "10-K" /\ f.value.kind = "num" /\ f.start.kind = "none"
          /\ f.end.kind = "iso"
          /\ args.period_end - f.end.day > args.tolerance_days

WrongForm(f, a) == a.form_type # None /\ f.form \notin a.form_type

\* C7: with a required form type, no observation of another form is ever
\* returned and such observations do not stop the scan (the result is what
\* it would be without them); with no form type, the form plays no role (the
\* result is what it would be if every observation had one form and that
\* form were required).
C7_FormFilter ==
    Found =>
        /\ \A tag \in DOMAIN facts_by_concept : \A f \in Range(Facts(tag)) :
              Returned(f, tag) => ~WrongForm(f, args)
        /\ args.form_type # None =>
              result = find_fact_value(
                           FilterIndex(facts_by_concept, LAMBDA f : ~WrongForm(f, args)),
                           args)
        /\ args.form_type = None =>
              result = find_fact_value(
                           MapIndex(facts_by_concept, LAMBDA f : [f EXCEPT !.form = "10-K"]),
                           [args EXCEPT !.form_type = Some("10-K")])

\* C7 witness: form 10-K is required, the first candidate holds a 10-Q
\* observation ending exactly at the target and carrying a number, and a 10-K
\* observation of that candidate ending another day is returned.
C7_Witness ==
    /\ Found
    /\ args.form_type = Some("10-K")
    /\ LET tag == args.tag_candidates[1]
       IN  \E f, g \in Range(Facts(tag)) :
              /\ g.form = "10-Q" /\ g.end = Iso(args.period_end)
              /\ g.value.kind = "num" /\ PassesStart(g, args)
              /\ f.form = "10-K" /\ f.end # g.end
              /\ Returned(f, tag)

StartTooFar(f, a) == ~PassesStart(f, a)

\* C8: with a target period start, a returned observation has no parsed
\* start date or one within tolerance_days of the target start, and a start
\* date within tolerance counts as much as a missing one; with no target
\* period start, the observations' start dates play no role.
C8_StartRule ==
    Found =>
        /\ \A tag \in DOMAIN facts_by_concept : \A f \in Range(Facts(tag)) :
              (Returned(f, tag) /\ args.period_start # None) =>
                  \/ f.start.kind # "iso"
                  \/ \E ps \in args.period_start :
                        /\ f.start.day - ps <= args.tolerance_days
                        /\ ps - f.start.day <= args.tolerance_days
        /\ args.period_start # None =>
              result = find_fact_value(
                           MapIndex(facts_by_concept,
                                    LAMBDA f : IF StartTooFar(f, args) THEN f
                                               ELSE [f EXCEPT !.start = NoneStr]),
                           args)
        /\ args.period_start = None =>
              result = find_fact_value(
                           MapIndex(facts_by_concept, LAMBDA f : [f EXCEPT !.start = NoneStr]),
                           args)

\* C8 witness: a target start is given, the first candidate holds an
\* observation ending exactly at the target whose start date is outside the
\* tolerance, and another observation of that candidate is returned.
C8_Witness ==
    /\ Found
    /\ args.period_start # None
    /\ LET tag == args.tag_candidates[1]
       IN  \E f, g \in Range(Facts(tag)) :
              /\ g.end = Iso(args.period_end) /\ PassesForm(g, args)
              /\ g.value.kind = "num" /\ StartTooFar(g, args)
              /\ f # g
              /\ Returned(f, tag)

\* --------------------------------- properties of indexing and of assembly

Extracted == op \in {"extract_income_statement", "extract_balance_sheet", "extract_cash_flow"}

\* The tag table the last extract operation went through.
TableOfOp ==
    CASE op = "extract_income_statement" -> INCOME_STATEMENT_TAGS
      [] op = "extract_balance_sheet" -> BALANCE_SHEET_TAGS
      [] op = "extract_cash_flow" -> CASH_FLOW_TAGS

\* The keys of a statement's line_items mapping.
KeysOf(statement) == {statement.line_items[i].key : i \in DOMAIN statement.line_items}

\* What the resolver returns for one entry of a tag table under the last
\* call's period, form type and the default tolerance.
Resolved(entry) ==
    find_fact_value(facts_by_concept,
                    [tag_candidates |-> entry.tags,
                     period_end |-> args.period_end,
                     period_start |-> args.period_start,
                     fiscal_year |-> args.fiscal_year,
                     fiscal_period |-> args.fiscal_period,
                     form_type |-> args.form_type,
                     tolerance_days |-> DefaultTolerance])

\* C3: in every returned statement a key is in line_items exactly when the
\* resolver returned a value for it, and every line item's value is not
\* None.
C3_AbsentWhenUnresolved ==
    Extracted =>
        /\ \A e \in Range(TableOfOp) :
              (e.key \in KeysOf(result)) <=> (Resolved(e)[1] # None)
        /\ \A i \in DOMAIN result.line_items :
              /\ result.line_items[i].item.value # None
              /\ \E e \in Range(TableOfOp) : e.key = result.line_items[i].key

\* C3 witness: an income statement in which revenue is resolved and
\* net_income, whose first candidate is in the index, is absent.
C3_Witness ==
    /\ op = "extract_income_statement"
    /\ TagA \in DOMAIN facts_by_concept
    /\ \E f \in Range(Facts(TagA)) : f.value.kind = "num"
    /\ "revenue" \in KeysOf(result)
    /\ "net_income" \notin KeysOf(result)

Count(seq, x) == Cardinality({i \in DOMAIN seq : seq[i] = x})

RecognizedNamespaces == {"us-gaap", "dei"}

\* The places of concept c's raw observations in one namespace: namespace,
\* concept entry, unit entry, array position.
PlacesIn(ns, c) ==
    UNION {UNION {{<<ns, i, j, k>> : k \in DOMAIN xbrl_facts[ns][i].units[j].values} :
                      j \in DOMAIN xbrl_facts[ns][i].units} :
               i \in {n \in DOMAIN xbrl_facts[ns] : xbrl_facts[ns][n].concept = c}}

\* The same under the recognized namespaces together.
RawPlaces(c) == UNION {PlacesIn(ns, c) : ns \in RecognizedNamespaces \cap DOMAIN xbrl_facts}

\* The raw observation at a place, tagged with its unit.
TaggedAt(p) ==
    LET u == xbrl_facts[p[1]][p[2]].units[p[3]]
        o == u.values[p[4]]
    IN  [value |-> o.val, end |-> o.end, start |-> o.start, fy |-> o.fy, fp |-> o.fp,
         form |-> o.form, filed |-> o.filed, accn |-> o.accn, frame |-> o.frame,
         unit |-> u.unit]

RecognizedConcepts ==
    UNION {{xbrl_facts[ns][i].concept : i \in DOMAIN xbrl_facts[ns]} :
               ns \in RecognizedNamespaces \cap DOMAIN xbrl_facts}

\* C10: the index holds, for every concept under us-gaap or dei, exactly
\* that concept's raw observations across all its unit arrays, each tagged
\* with its unit: as many entries as raw observations, each raw observation
\* as often as the payload holds it, and no concept met only under another
\* namespace.
C10_IndexComplete ==
    /\ DOMAIN facts_by_concept = RecognizedConcepts
    /\ \A c \in DOMAIN facts_by_concept :
          /\ Len(facts_by_concept[c]) = Cardinality(RawPlaces(c))
          /\ \A p \in RawPlaces(c) :
                Count(facts_by_concept[c], TaggedAt(p))
                    = Cardinality({q \in RawPlaces(c) : TaggedAt(q) = TaggedAt(p)})

\* C10 witness: one concept carries the same observation under us-gaap and
\* under dei, and its list holds both.
C10_Witness ==
    \E c \in DOMAIN facts_by_concept :
        /\ \E p, q \in RawPlaces(c) : p[1] = "us-gaap" /\ q[1] = "dei"
        /\ Len(facts_by_concept[c]) = 2
        /\ facts_by_concept[c][1] = facts_by_concept[c][2]

\* ------------------------------------------------ presentation: models.py

\* LineItem.display_value: None when the value is None, the value with its
\* sign reversed when the item is flagged, the value otherwise.
DisplayValueUnflagged(item) == item.value

display_value(item) ==
    IF item.value = None THEN None
    ELSE IF item.is_negated THEN Some(-The(item.value))
    ELSE item.value

HasItem(statement, key) ==
    \E i \in DOMAIN statement.line_items : statement.line_items[i].key = key

\* statement.line_items[key]
ItemOf(statement, key) ==
    LET i == CHOOSE i \in DOMAIN statement.line_items :
                 statement.line_items[i].key = key
    IN  statement.line_items[i].item

\* FinancialStatement.get_value: the raw value, or None without the key.
get_value(statement, key) ==
    IF HasItem(statement, key) THEN ItemOf(statement, key).value ELSE None

\* FinancialStatement.to_dict: {key: item.display_value}, in the order of
\* line_items.
to_dict(statement) ==
    [i \in DOMAIN statement.line_items |->
        [key |-> statement.line_items[i].key,
         value |-> display_value(statement.line_items[i].item)]]

\* --------------------------------------------------- presentation: strings

Uppercase == "ABCDEFGHIJKLMNOPQRSTUVWXYZ"

Lowercase == "abcdefghijklmnopqrstuvwxyz"

LowerChar(c) ==
    IF \E i \in 1..Len(Uppercase) : SubSeq(Uppercase, i, i) = c
    THEN LET i == CHOOSE i \in 1..Len(Uppercase) : SubSeq(Uppercase, i, i) = c
         IN  SubSeq(Lowercase, i, i)
    ELSE c

\* str.lower()
RECURSIVE lower(_)
lower(s) ==
    IF s = "" THEN ""
    ELSE LowerChar(SubSeq(s, 1, 1)) \o lower(SubSeq(s, 2, Len(s)))

\* t in s
Contains(s, t) ==
    \E i \in 1..(Len(s) - Len(t) + 1) : SubSeq(s, i, i + Len(t) - 1) = t

\* --------------------------------------------------- presentation: numbers

\* The values are floats. Python's true division is modelled by its exact
\* quotient (IEEE rounding left out); a value that is not divided is its
\* quotient by 1.
Thousand == 1000

Quotient(n, d) == [num |-> n, den |-> d]

RECURSIVE Gcd(_, _)
Gcd(a, b) == IF b = 0 THEN a ELSE Gcd(b, a % b)

\* A quotient in lowest terms (the divisor is positive).
Reduced(q) ==
    LET g == Gcd(Abs(q.num), q.den)
    IN  Quotient(q.num \div g, q.den \div g)

SameNumber(a, b) == Reduced(a) = Reduced(b)

\* --------------------------------------- presentation: excel_exporter.py

\* "(Amounts in thousands, except per share data)": what _write_line_items
\* puts in the value cell for a display value.
ExportScaleEverything(key, display) == Quotient(display, Thousand)

\* The same cell value were the per-share test the substring "ep".
ExportScaleEpSubstring(key, display) ==
    IF Contains(lower(key), "ep") THEN Quotient(display, 1)
    ELSE Quotient(display, Thousand)

ExportScale(key, display) ==
    IF Contains(lower(key), "eps") THEN Quotient(display, 1)
    ELSE IF Contains(lower(key), "shares") THEN Quotient(display, Thousand)
    ELSE Quotient(display, Thousand)

\* The cell pair of one row: the label always, the value only when the item
\* has one.
ExportCell(row, key, is_subtotal, item) ==
    [row |-> row,
     label |-> item.label,
     is_subtotal |-> is_subtotal,
     value |-> IF item.value # None /\ display_value(item) # None
               THEN Some(ExportScale(key, The(display_value(item))))
               ELSE None]

\* ExcelExporter._write_line_items: a spacer takes a row, a key the
\* statement lacks takes none, a key it has takes one. Returns the cells
\* written and the next row.
RECURSIVE write_line_items(_, _, _)
write_line_items(stmt, order, start_row) ==
    IF order = <<>> THEN [cells |-> <<>>, row |-> start_row]
    ELSE LET entry == Head(order)
         IN  IF entry.key = None
             THEN write_line_items(stmt, Tail(order), start_row + 1)
             ELSE IF ~HasItem(stmt, The(entry.key))
             THEN write_line_items(stmt, Tail(order), start_row)
             ELSE LET rest == write_line_items(stmt, Tail(order), start_row + 1)
                      cell == ExportCell(start_row, The(entry.key), entry.is_subtotal,
                                         ItemOf(stmt, The(entry.key)))
                  IN  [cells |-> <<cell>> \o rest.cells, row |-> rest.row]

\* _write_header returns the first data row.
HeaderRows == 6

\* excel_exporter.py 121-140
line_order ==
    <<
       [key |-> Some("revenue"), is_subtotal |-> FALSE],
       [key |-> Some("cost_of_revenue"), is_subtotal |-> FALSE],
       [key |-> Some("gross_profit"), is_subtotal |-> TRUE],
       [key |-> Some("research_and_development"), is_subtotal |-> FALSE],
       [key |-> Some("selling_general_admin"), is_subtotal |-> FALSE],
       [key |-> Some("operating_expenses"), is_subtotal |-> FALSE],
       [key |-> Some("operating_income"), is_subtotal |-> TRUE],
       [key |-> Some("interest_income"), is_subtotal |-> FALSE],
       [key |-> Some("interest_expense"), is_subtotal |-> FALSE],
       [key |-> Some("other_income_expense"), is_subtotal |-> FALSE],
       [key |-> Some("income_before_tax"), is_subtotal |-> TRUE],
       [key |-> Some("income_tax_expense"), is_subtotal |-> FALSE],
       [key |-> Some("net_income"), is_subtotal |-> TRUE],
       [key |-> None, is_subtotal |-> FALSE],
       [key |-> Some("eps_basic"), is_subtotal |-> FALSE],
       [key |-> Some("eps_diluted"), is_subtotal |-> FALSE],
       [key |-> Some("shares_basic"), is_subtotal |-> FALSE],
       [key |-> Some("shares_diluted"), is_subtotal |-> FALSE] >>

\* excel_exporter.py 171-184
assets_order ==
    <<
       [key |-> Some("cash_and_equivalents"), is_subtotal |-> FALSE],
       [key |-> Some("short_term_investments"), is_subtotal |-> FALSE],
       [key |-> Some("accounts_receivable"), is_subtotal |-> FALSE],
       [key |-> Some("inventory"), is_subtotal |-> FALSE],
       [key |-> Some("prepaid_expenses"), is_subtotal |-> FALSE],
       [key |-> Some("total_current_assets"), is_subtotal |-> TRUE],
       [key |-> Some("property_plant_equipment"), is_subtotal |-> FALSE],
       [key |-> Some("goodwill"), is_subtotal |-> FALSE],
       [key |-> Some("intangible_assets"), is_subtotal |-> FALSE],
       [key |-> Some("long_term_investments"), is_subtotal |-> FALSE],
       [key |-> Some("other_assets"), is_subtotal |-> FALSE],
       [key |-> Some("total_assets"), is_subtotal |-> TRUE] >>

\* excel_exporter.py 193-204
liabilities_order ==
    <<
       [key |-> Some("accounts_payable"), is_subtotal |-> FALSE],
       [key |-> Some("accrued_liabilities"), is_subtotal |-> FALSE],
       [key |-> Some("deferred_revenue_current"), is_subtotal |-> FALSE],
       [key |-> Some("short_term_debt"), is_subtotal |-> FALSE],
       [key |-> Some("current_portion_long_term_debt"), is_subtotal |-> FALSE],
       [key |-> Some("total_current_liabilities"), is_subtotal |-> TRUE],
       [key |-> Some("long_term_debt"), is_subtotal |-> FALSE],
       [key |-> Some("deferred_tax_liabilities"), is_subtotal |-> FALSE],
       [key |-> Some("other_liabilities"), is_subtotal |-> FALSE],
       [key |-> Some("total_liabilities"), is_subtotal |-> TRUE] >>

\* The equity rows were treasury_stock left out of the list.
EquityOrderWithoutTreasury ==
    <<
       [key |-> Some("common_stock"), is_subtotal |-> FALSE],
       [key |-> Some("additional_paid_in_capital"), is_subtotal |-> FALSE],
       [key |-> Some("retained_earnings"), is_subtotal |-> FALSE],
       [key |-> Some("accumulated_other_comprehensive_income"), is_subtotal |-> FALSE],
       [key |-> Some("total_stockholders_equity"), is_subtotal |-> TRUE],
       [key |-> Some("total_liabilities_and_equity"), is_subtotal |-> TRUE] >>

\* excel_exporter.py 213-221
equity_order ==
    <<
       [key |-> Some("common_stock"), is_subtotal |-> FALSE],
       [key |-> Some("additional_paid_in_capital"), is_subtotal |-> FALSE],
       [key |-> Some("retained_earnings"), is_subtotal |-> FALSE],
       [key |-> Some("accumulated_other_comprehensive_income"), is_subtotal |-> FALSE],
       [key |-> Some("treasury_stock"), is_subtotal |-> FALSE],
       [key |-> Some("total_stockholders_equity"), is_subtotal |-> TRUE],
       [key |-> Some("total_liabilities_and_equity"), is_subtotal |-> TRUE] >>

\* excel_exporter.py 251-261
operating_order ==
    <<
       [key |-> Some("net_income_cf"), is_subtotal |-> FALSE],
       [key |-> Some("depreciation_amortization"), is_subtotal |-> FALSE],
       [key |-> Some("stock_based_compensation"), is_subtotal |-> FALSE],
       [key |-> Some("deferred_income_taxes"), is_subtotal |-> FALSE],
       [key |-> Some("change_in_receivables"), is_subtotal |-> FALSE],
       [key |-> Some("change_in_inventory"), is_subtotal |-> FALSE],
       [key |-> Some("change_in_payables"), is_subtotal |-> FALSE],
       [key |-> Some("other_operating_activities"), is_subtotal |-> FALSE],
       [key |-> Some("net_cash_from_operating"), is_subtotal |-> TRUE] >>

\* excel_exporter.py 270-276
investing_order ==
    <<
       [key |-> Some("capital_expenditures"), is_subtotal |-> FALSE],
       [key |-> Some("acquisitions"), is_subtotal |-> FALSE],
       [key |-> Some("purchases_of_investments"), is_subtotal |-> FALSE],
       [key |-> Some("sales_of_investments"), is_subtotal |-> FALSE],
       [key |-> Some("net_cash_from_investing"), is_subtotal |-> TRUE] >>

\* excel_exporter.py 285-292
financing_order ==
    <<
       [key |-> Some("debt_issuance"), is_subtotal |-> FALSE],
       [key |-> Some("debt_repayment"), is_subtotal |-> FALSE],
       [key |-> Some("share_repurchases"), is_subtotal |-> FALSE],
       [key |-> Some("dividends_paid"), is_subtotal |-> FALSE],
       [key |-> Some("stock_issuance"), is_subtotal |-> FALSE],
       [key |-> Some("net_cash_from_financing"), is_subtotal |-> TRUE] >>

\* excel_exporter.py 298-301
net_change_order ==
    <<
       [key |-> Some("effect_of_exchange_rate"), is_subtotal |-> FALSE],
       [key |-> Some("net_change_in_cash"), is_subtotal |-> TRUE] >>

\* _write_income_statement: header, column headers, then the line items.
write_income_statement(stmt) ==
    write_line_items(stmt, line_order, HeaderRows + 1).cells

\* _write_balance_sheet: three sections, each under a title row and, but for
\* the first, after a blank row.
write_balance_sheet(stmt) ==
    LET assets == write_line_items(stmt, assets_order, HeaderRows + 2)
        liabilities == write_line_items(stmt, liabilities_order, assets.row + 2)
        equity == write_line_items(stmt, equity_order, liabilities.row + 2)
    IN  assets.cells \o liabilities.cells \o equity.cells

\* _write_cash_flow: three titled sections and the net change, which has no
\* title row.
write_cash_flow(stmt) ==
    LET operating == write_line_items(stmt, operating_order, HeaderRows + 2)
        investing == write_line_items(stmt, investing_order, operating.row + 2)
        financing == write_line_items(stmt, financing_order, investing.row + 2)
        net_change == write_line_items(stmt, net_change_order, financing.row + 1)
    IN  operating.cells \o investing.cells \o financing.cells \o net_change.cells

\* ------------------------------------ presentation: the verification scripts

\* sec_values[label] = scaled_value: a label already present keeps its place.
PutValue(sec_values, label, value) ==
    IF \E i \in DOMAIN sec_values : sec_values[i].label = label
    THEN [i \in DOMAIN sec_values |->
             IF sec_values[i].label = label THEN [label |-> label, value |-> value]
             ELSE sec_values[i]]
    ELSE Append(sec_values, [label |-> label, value |-> value])

\* verify_data.compare_statements, the scaling of one item.
CompareScale(key, item) ==
    IF Contains(lower(key), "eps") THEN Quotient(The(display_value(item)), 1)
    ELSE IF Contains(lower(key), "shares") THEN Quotient(The(display_value(item)), Thousand)
    ELSE Quotient(The(display_value(item)), Thousand)

\* verify_data.compare_statements, "Build mapping from SEC data".
RECURSIVE CompareValues(_, _)
CompareValues(line_items, sec_values) ==
    IF line_items = <<>> THEN sec_values
    ELSE LET key == Head(line_items).key
             item == Head(line_items).item
         IN  CompareValues(Tail(line_items),
                 IF item.value # None
                 THEN PutValue(sec_values, item.label, CompareScale(key, item))
                 ELSE sec_values)

compare_statements(sec_statement) == CompareValues(sec_statement.line_items, <<>>)

\* BatchVerifier.verify_file, the scaling of one item.
VerifyScale(key, item) ==
    IF Contains(lower(key), "eps") THEN Quotient(The(display_value(item)), 1)
    ELSE IF Contains(lower(key), "shares") THEN Quotient(The(display_value(item)), Thousand)
    ELSE Quotient(The(display_value(item)), Thousand)

\* BatchVerifier.verify_file, the mapping built for one statement.
RECURSIVE VerifyValues(_, _)
VerifyValues(line_items, sec_values) ==
    IF line_items = <<>> THEN sec_values
    ELSE LET key == Head(line_items).key
             item == Head(line_items).item
         IN  VerifyValues(Tail(line_items),
                 IF item.value # None
                 THEN PutValue(sec_values, item.label, VerifyScale(key, item))
                 ELSE sec_values)

verify_file(sec_stmt) == VerifyValues(sec_stmt.line_items, <<>>)

\* ------------------------------------------- statements and their consumers

\* Payloads whose values matter: a monetary key, a negated monetary key of
\* each statement type, a per-share key and a share count.
TagCost == "CostOfGoodsAndServicesSold"

TagCostAlt == "CostOfRevenue"

TagEps == "EarningsPerShareBasic"

TagShares == "WeightedAverageNumberOfSharesOutstandingBasic"

TagTreasury == "TreasuryStockValue"

TagCapex == "PaymentsToAcquirePropertyPlantAndEquipment"

SurfaceValues ==
    {<<TagRevenues, 500>>, <<TagRevenues, 12345000>>,
     <<TagCost, 500>>, <<TagCost, -250>>, <<TagCostAlt, -700>>,
     <<TagEps, 3>>, <<TagShares, 1000000>>,
     <<TagTreasury, 1500>>, <<TagCapex, 2000>>}

SurfaceRows ==
    {[ns |-> "us-gaap", concept |-> tv[1], unit |-> "USD",
      obs |-> RawObs(Iso(1), "10-K", NoneStr, Num(tv[2]))] : tv \in SurfaceValues}

SurfacePayloads == {PayloadOf(rows, Namespaces) : rows \in SeqsUpTo(SurfaceRows, MaxFacts)}

InitSurface ==
    /\ xbrl_facts \in SurfacePayloads
    /\ facts_by_concept = index_facts(xbrl_facts)
    /\ op = "__init__"
    /\ args = None
    /\ result = None
    /\ calls = NoCalls

Surfaced ==
    op \in {"_write_income_statement", "_write_balance_sheet", "_write_cash_flow",
            "compare_statements", "verify_file", "to_dict"}

\* The statement last extracted: the result of an extract operation, and the
\* argument of the consumer it was then handed to.
Statement == IF Extracted THEN result ELSE args

HasStatement == Extracted \/ Surfaced

\* Each consumer takes the held statement as its argument and leaves what it
\* produced in result.
Consume(name, produced) ==
    /\ op' = name
    /\ args' = Statement
    /\ result' = produced
    /\ UNCHANGED <<xbrl_facts, facts_by_concept, calls>>

WriteIncomeStatement ==
    /\ HasStatement
    /\ Statement.statement_type = "income_statement"
    /\ Consume("_write_income_statement", write_income_statement(Statement))

WriteBalanceSheet ==
    /\ HasStatement
    /\ Statement.statement_type = "balance_sheet"
    /\ Consume("_write_balance_sheet", write_balance_sheet(Statement))

WriteCashFlow ==
    /\ HasStatement
    /\ Statement.statement_type = "cash_flow"
    /\ Consume("_write_cash_flow", write_cash_flow(Statement))

CompareStatements ==
    /\ HasStatement
    /\ Consume("compare_statements", compare_statements(Statement))

VerifyFile ==
    /\ HasStatement
    /\ Consume("verify_file", verify_file(Statement))

ToDict ==
    /\ HasStatement
    /\ Consume("to_dict", to_dict(Statement))

NextSurface ==
    \/ ExtractIncomeStatement
    \/ ExtractBalanceSheet
    \/ ExtractCashFlow
    \/ WriteIncomeStatement
    \/ WriteBalanceSheet
    \/ WriteCashFlow
    \/ CompareStatements
    \/ VerifyFile
    \/ ToDict

SpecSurface == InitSurface /\ [][NextSurface]_vars

\* ------------------------------------------------ properties of presentation

\* The raw value of the line item under a key of the held statement.
RawOf(key) == The(ItemOf(Statement, key).value)

\* The display value the negation rule gives a key and a raw value.
Negated(key, raw) == IF key \in NEGATED_ITEMS THEN -raw ELSE raw

Written == op \in {"_write_income_statement", "_write_balance_sheet", "_write_cash_flow"}

\* The cells of the last export that carry a label.
CellsOf(label) == {i \in DOMAIN result : result[i].label = label}

\* The value the last export wrote next to a label.
WrittenFor(label) == The(result[CHOOSE i \in CellsOf(label) : TRUE].value)

\* C12: the value the exporter writes for a line item is its display value
\* (negation applied first) as it is when the key contains "eps", and the
\* display value divided by 1000 for every other key, share counts included:
\* 12,345,000 is written as 12,345, a per-share value stays as it is, a share
\* count of 1,000,000 is written as 1,000.
C12_ExportScaling ==
    Written =>
        \A i \in DOMAIN args.line_items :
            LET key == args.line_items[i].key
                item == args.line_items[i].item
                raw == The(item.value)
            IN  /\ Cardinality(CellsOf(item.label)) = 1
                /\ WrittenFor(item.label)
                      = Quotient(Negated(key, raw),
                                 IF Contains(key, "eps") THEN 1 ELSE Thousand)
                /\ (key = "revenue" /\ raw = 12345000)
                      => SameNumber(WrittenFor(item.label), Quotient(12345, 1))
                /\ (key = "shares_basic" /\ raw = 1000000)
                      => SameNumber(WrittenFor(item.label), Quotient(1000, 1))
                /\ (key = "eps_basic" /\ raw = 3)
                      => SameNumber(WrittenFor(item.label), Quotient(3, 1))
                /\ (key = "cost_of_revenue" /\ raw = 500)
                      => SameNumber(WrittenFor(item.label), Quotient(-1, 2))

\* C12 witness: an exported income statement in which revenue 12,345,000 was
\* written as 12,345 and a per-share value of 3 as 3.
C12_Witness ==
    /\ op = "_write_income_statement"
    /\ HasItem(args, "revenue")
    /\ HasItem(args, "eps_basic")
    /\ ItemOf(args, "revenue").value = Some(12345000)
    /\ ItemOf(args, "eps_basic").value = Some(3)
    /\ \E i, j \in DOMAIN result :
          /\ result[i].label = "Revenue"
          /\ result[i].value = Some(Quotient(12345000, Thousand))
          /\ result[j].label = ItemOf(args, "eps_basic").label
          /\ result[j].value = Some(Quotient(3, 1))

\* The value a consumer surfaced for a line item of the statement it was
\* handed.
SurfacedValue(key, item) ==
    CASE Written -> WrittenFor(item.label)
      [] op \in {"compare_statements", "verify_file"} ->
            result[CHOOSE i \in DOMAIN result : result[i].label = item.label].value
      [] op = "to_dict" ->
            Quotient(The(result[CHOOSE i \in DOMAIN result : result[i].key = key].value), 1)

\* C13 as stated: wherever a resolved value is surfaced (the exporter, the
\* two verification scripts, to_dict), the value is the raw value negated by
\* key and then divided by 1000 unless the key contains "eps".
C13_SameRulesEverywhere ==
    Surfaced =>
        \A i \in DOMAIN args.line_items :
            LET key == args.line_items[i].key
                item == args.line_items[i].item
            IN  SameNumber(SurfacedValue(key, item),
                           Quotient(Negated(key, The(item.value)),
                                    IF Contains(key, "eps") THEN 1 ELSE Thousand))

\* --------------------------------------------------------- repeated calls

\* Payloads for repeated calls: a concept of the income statement and the
\* cash flow with an observation that only the later target period accepts,
\* one of the income statement alone and one of the balance sheet, both with
\* a start date that only the later target period start accepts.
RepeatRows ==
    {[ns |-> "us-gaap", concept |-> TagA, unit |-> "USD",
      obs |-> RawObs(Iso(1), "10-K", NoneStr, Num(0))],
     [ns |-> "us-gaap", concept |-> TagA, unit |-> "USD",
      obs |-> RawObs(Iso(DefaultTolerance + 2), "10-K", NoneStr, Num(0))],
     [ns |-> "us-gaap", concept |-> TagRevenues, unit |-> "USD",
      obs |-> RawObs(Iso(1), "10-K", Iso(DefaultTolerance + 1), Num(0))],
     [ns |-> "us-gaap", concept |-> TagAssets, unit |-> "USD",
      obs |-> RawObs(Iso(1), "10-K", Iso(DefaultTolerance + 1), Num(0))]}

RepeatPayloads ==
    {PayloadOf(Stamp(rows), Namespaces) : rows \in SeqsUpTo(RepeatRows, MaxFacts)}

InitRepeat ==
    /\ xbrl_facts \in RepeatPayloads
    /\ facts_by_concept = index_facts(xbrl_facts)
    /\ op = "__init__"
    /\ args = None
    /\ result = None
    /\ calls = [NoCalls EXCEPT !.keep = TRUE]

SpecRepeat == InitRepeat /\ [][Next]_vars

\* C14: a call of an extract operation returns a statement equal in every
\* field to the one every earlier call of the same operation with the same
\* period bounds and form type returned on this extractor, whatever calls
\* were made in between.
C14_Idempotent ==
    (Extracted /\ calls.keep) =>
        \A c \in calls.made :
            (c.op = op /\ c.args = args) => c.result = result

\* C14 witness: an income statement with a line item has been extracted
\* for the second time with the same arguments, after a balance sheet with a
\* line item and an income statement for another period.
C14_Witness ==
    /\ op = "extract_income_statement"
    /\ result.line_items # <<>>
    /\ calls.again
    /\ \E c \in calls.made :
          /\ c.op = "extract_balance_sheet"
          /\ c.result.line_items # <<>>
    /\ \E c \in calls.made :
          /\ c.op = op
          /\ c.args.period_end # args.period_end
          /\ c.result.line_items # result.line_items

\* ------------------------------------------- assembly, one key at a time

\* The loop of an extract operation taken one iteration at a time. While a
\* statement is being assembled op is "assembling", args holds the call
\* (name, arguments) and the keys the resolver has been invoked for, and
\* result the statement so far; on return the state is that of the whole
\* operation.
TableOf(name) ==
    CASE name = "extract_income_statement" -> INCOME_STATEMENT_TAGS
      [] name = "extract_balance_sheet" -> BALANCE_SHEET_TAGS
      [] name = "extract_cash_flow" -> CASH_FLOW_TAGS

\* As NextEntry, going through the table from its end.
NextEntryReversed(table, invoked) == table[Len(table) - Len(invoked)]

\* for key, tag_candidates in <TABLE>.items(): a dict is iterated in the
\* order its keys were declared.
NextEntry(table, invoked) == table[Len(invoked) + 1]

InitAssemble ==
    /\ xbrl_facts \in RepeatPayloads
    /\ facts_by_concept = index_facts(xbrl_facts)
    /\ op = "__init__"
    /\ args = None
    /\ result = None
    /\ calls = NoCalls

\* statement = FinancialStatement(...), before the loop.
Begin(name, statement_type, a) ==
    /\ op # "assembling"
    /\ op' = "assembling"
    /\ args' = [name |-> name, call |-> a, invoked |-> <<>>]
    /\ result' = FinancialStatement(statement_type, a, <<>>)
    /\ UNCHANGED <<xbrl_facts, facts_by_concept, calls>>

BeginIncomeStatement ==
    \E a \in ExtractArgs : Begin("extract_income_statement", "income_statement", a)

BeginBalanceSheet ==
    \E a \in ExtractArgs :
        Begin("extract_balance_sheet", "balance_sheet", [a EXCEPT !.period_start = None])

BeginCashFlow ==
    \E a \in ExtractArgs : Begin("extract_cash_flow", "cash_flow", a)

\* One iteration: the resolver is invoked for the next key, and the key is
\* added when a value was found.
ResolveNextKey ==
    /\ op = "assembling"
    /\ Len(args.invoked) < Len(TableOf(args.name))
    /\ LET entry == NextEntry(TableOf(args.name), args.invoked)
           found == find_fact_value(facts_by_concept,
                        [tag_candidates |-> entry.tags,
                         period_end |-> args.call.period_end,
                         period_start |-> args.call.period_start,
                         fiscal_year |-> args.call.fiscal_year,
                         fiscal_period |-> args.call.fiscal_period,
                         form_type |-> args.call.form_type,
                         tolerance_days |-> DefaultTolerance])
       IN  /\ result' = [result EXCEPT !.line_items =
                            AddIfFound(@, entry.key, found,
                                       args.call.period_start, args.call.period_end)]
           /\ args' = [args EXCEPT !.invoked = Append(@, entry.key)]
           /\ facts_by_concept' = IndexAfterQuery(facts_by_concept, entry.tags)
    /\ UNCHANGED <<xbrl_facts, op, calls>>

\* return statement, once the table is exhausted.
ReturnStatement ==
    /\ op = "assembling"
    /\ Len(args.invoked) = Len(TableOf(args.name))
    /\ op' = args.name
    /\ args' = args.call
    /\ UNCHANGED <<xbrl_facts, facts_by_concept, result, calls>>

NextAssemble ==
    \/ BeginIncomeStatement
    \/ BeginBalanceSheet
    \/ BeginCashFlow
    \/ ResolveNextKey
    \/ ReturnStatement

SpecAssemble == InitAssemble /\ [][NextAssemble]_vars

\* The keys of a tag table, in declared order.
KeySeq(table) == [i \in DOMAIN table |-> table[i].key]

\* The keys of a statement's line_items, in iteration order.
ItemKeys(statement) == [i \in DOMAIN statement.line_items |-> statement.line_items[i].key]

IsPrefix(s, t) == Len(s) <= Len(t) /\ \A i \in DOMAIN s : s[i] = t[i]

\* The position of a key in a sequence of distinct keys, 0 when absent.
PositionIn(keys, key) ==
    IF \E i \in DOMAIN keys : keys[i] = key
    THEN CHOOSE i \in DOMAIN keys : keys[i] = key
    ELSE 0

\* keys are distinct elements of table_keys, in the order they have there.
InTableOrder(keys, table_keys) ==
    /\ \A i \in DOMAIN keys : PositionIn(table_keys, keys[i]) > 0
    /\ \A i, j \in DOMAIN keys :
          i < j => PositionIn(table_keys, keys[i]) < PositionIn(table_keys, keys[j])

\* The assembled statement agrees with the whole operation.
StepwiseAgrees ==
    /\ op = "extract_income_statement" => result = extract_income_statement(facts_by_concept, args)
    /\ op = "extract_balance_sheet" => result = extract_balance_sheet(facts_by_concept, args)
    /\ op = "extract_cash_flow" => result = extract_cash_flow(facts_by_concept, args)

\* C15: while a statement is assembled the keys the resolver has been
\* invoked for are a prefix of the table's keys in declared order (each key
\* once, none skipped, none out of order); the statement is returned only
\* after the last key; and the keys of the statement so far and of the
\* returned statement are distinct keys of the table in declared order.
C15_AssemblyOrder ==
    /\ [](op = "assembling" =>
             /\ IsPrefix(args.invoked, KeySeq(TableOf(args.name)))
             /\ InTableOrder(ItemKeys(result), args.invoked))
    /\ [](Extracted => InTableOrder(ItemKeys(result), KeySeq(TableOfOp)))
    /\ [][(op = "assembling" /\ op' # "assembling")
             => args.invoked = KeySeq(TableOf(args.name))]_vars

\* C15 witness: a returned income statement holding revenue and net_income,
\* which are not neighbours in the table, in that order.
C15_Witness ==
    /\ op = "extract_income_statement"
    /\ Len(result.line_items) = 2
    /\ ItemKeys(result) = <<"revenue", "net_income">>

\* C16: the label of every line item of an assembled statement is the label
\* table's entry for its key (the key itself without an entry) and its
\* negation flag is membership of its key in the negated-item set, whatever
\* the matched tag, the value or the period.
C16_LabelAndFlagByKey ==
    Extracted =>
        \A i \in DOMAIN result.line_items :
            LET key == result.line_items[i].key
                item == result.line_items[i].item
            IN  /\ item.label = (IF key \in DOMAIN LABELS THEN LABELS[key] ELSE key)
                /\ item.is_negated = (key \in NEGATED_ITEMS)

\* C16 witness: cost_of_revenue matched by its second candidate with a
\* negative value carries its label and the flag, next to revenue which
\* carries its label and no flag.
C16_Witness ==
    /\ op = "extract_income_statement"
    /\ args.period_end = 2
    /\ HasItem(result, "cost_of_revenue")
    /\ HasItem(result, "revenue")
    /\ ItemOf(result, "cost_of_revenue").xbrl_tag = TagCostAlt
    /\ The(ItemOf(result, "cost_of_revenue").value) < 0
    /\ ItemOf(result, "cost_of_revenue").label = "Cost of Revenue"
    /\ ItemOf(result, "cost_of_revenue").is_negated
    /\ ItemOf(result, "revenue").label = "Revenue"
    /\ ~ItemOf(result, "revenue").is_negated

\* ------------------------------------------ properties of the three assemblers

EraseStart(f) == [f EXCEPT !.start = NoneStr]

\* The entry of the last operation's table for a key.
EntryOf(key) == CHOOSE e \in Range(TableOfOp) : e.key = key

\* C17: the three extract operations are one procedure over different
\* tables. Every line item carries what the resolver returns for its key's
\* candidates under the call's period end, form type and period start, and
\* the call's period bounds, where the balance sheet has no period start
\* (None on the statement, on its items and towards the resolver) and the
\* two others have the one they were called with. The balance sheet is
\* therefore what it would be with every start date erased from the index.
C17_SameProcedure ==
    Extracted =>
        /\ (op = "extract_balance_sheet") => result.period_start = None
        /\ (op # "extract_balance_sheet") =>
              (args.period_start # None /\ result.period_start = args.period_start)
        /\ result.period_end = args.period_end
        /\ \A e \in Range(TableOfOp) :
              HasItem(result, e.key) <=> (Resolved(e)[1] # None)
        /\ \A i \in DOMAIN result.line_items :
              LET item == result.line_items[i].item
                  found == Resolved(EntryOf(result.line_items[i].key))
              IN  /\ item.value = found[1]
                  /\ Some(item.xbrl_tag) = found[2]
                  /\ item.period_start = result.period_start
                  /\ item.period_end = result.period_end
        /\ (op = "extract_balance_sheet") =>
              result = extract_balance_sheet(MapIndex(facts_by_concept, EraseStart), args)

\* C17 witness: a balance sheet holds total_assets, resolved from an
\* observation whose start date is further from the start of the period than
\* the tolerance, on an extractor whose income statement for the same period
\* end lacks revenue although Revenues is in the index.
C17_Witness ==
    /\ op = "extract_balance_sheet"
    /\ HasItem(result, "total_assets")
    /\ \A f \in Range(Facts(TagAssets)) :
          /\ f.start.kind = "iso"
          /\ f.start.day - (args.period_end - 1) > DefaultTolerance
    /\ TagRevenues \in DOMAIN facts_by_concept
    /\ \E c \in calls.made :
          /\ c.op = "extract_income_statement"
          /\ c.args.period_end = args.period_end
          /\ ~HasItem(c.result, "revenue")

\* ------------------------------------------- malformed observation fields

\* Observations of which one field is malformed: the end date is a text
\* that is no date, missing, or a number; the value is null, a text that is
\* no number, or an integer beyond the floats. The well-formed one ends a
\* day before those with a malformed value, so that they are met first.
GoodObs == RawObs(Iso(1), "10-K", NoneStr, Num(0))

MalformedObs ==
    {RawObs(e, "10-K", NoneStr, Num(0)) : e \in {BadStr, NoneStr, NumberStr(20240930)}}
    \cup {RawObs(Iso(2), "10-K", NoneStr, v) : v \in {NoneVal, BadVal, HugeVal}}

MalformedRows ==
    [ns : {"us-gaap"}, concept : {TagA}, unit : {"USD"}, obs : {GoodObs} \cup MalformedObs]
    \cup [ns : {"us-gaap"}, concept : {TagRevenues}, unit : {"USD"},
          obs : {GoodObs, RawObs(NumberStr(20240930), "10-K", NoneStr, Num(0))}]
    \cup [ns : {"us-gaap"}, concept : {TagAssets}, unit : {"USD"},
          obs : {GoodObs, RawObs(Iso(2), "10-K", NoneStr, HugeVal)}]

MalformedPayloads ==
    {PayloadOf(Stamp(rows), Namespaces) : rows \in SeqsUpTo(MalformedRows, MaxFacts)}

InitMalformed ==
    /\ xbrl_facts \in MalformedPayloads
    /\ facts_by_concept = index_facts(xbrl_facts)
    /\ op = "__init__"
    /\ args = None
    /\ result = None
    /\ calls = NoCalls

SpecMalformed == InitMalformed /\ [][Next]_vars

\* An indexed observation whose end date parses and whose value converts.
WellFormed(fact) == parse_date(fact.end) # None /\ ValueOk(fact)

\* What the extract_* method named `name` returns.
Handler(name, index, a) ==
    CASE name = "extract_income_statement" -> extract_income_statement(index, a)
      [] name = "extract_balance_sheet" -> extract_balance_sheet(index, a)
      [] name = "extract_cash_flow" -> extract_cash_flow(index, a)

\* The index holds an observation whose malformed field is a text or null:
\* no number as end date, no integer beyond the floats as value.
OnlyTextMalformed ==
    \A c \in DOMAIN facts_by_concept :
        \A i \in 1..Len(facts_by_concept[c]) :
            /\ facts_by_concept[c][i].end.kind # "number"
            /\ facts_by_concept[c][i].value.kind # "huge"

\* An end date or value that is null, missing or an unusable text is
\* discarded alone: the statement is the one the well-formed observations
\* give.
TextMalformedIsolated ==
    (Extracted /\ OnlyTextMalformed) =>
        /\ ~IsRaised(result)
        /\ result = Handler(op, FilterIndex(facts_by_concept, WellFormed), args)

\* C18: an observation with a malformed end date or value is discarded
\* alone: every raw observation is indexed, no extraction raises, and the
\* statement returned is the one the well-formed observations alone give.
C18_MalformedIsolated ==
    /\ \A c \in DOMAIN facts_by_concept :
          Len(facts_by_concept[c]) = Cardinality(RawPlaces(c))
    /\ Extracted =>
          /\ ~IsRaised(result)
          /\ result = Handler(op, FilterIndex(facts_by_concept, WellFormed), args)

\* ------------------------------------------------------- parse_sec_filing

\* The most filings the submissions document lists.
MaxFilings == 2

\* get_filings(..., count: int = 10)
DefaultCount == 10

\* Day 0 is 1 January 2024 and a year has 366 days.
YearDays == 366

YearOf(day) == 2024 + (day \div YearDays)

\* What a call gave back when it did not raise.
Gave(value) == [gave |-> value]

Cik == "0000320193"

\* _get_cik_from_tickers_json: None when the ticker is not listed, and None
\* as well when the request or the parse raised (except Exception).
get_cik_from_tickers_json(world) ==
    IF world.tickers = "listed" THEN Some(Cik) ELSE None

\* get_cik_for_ticker: the Atom feed's cik, otherwise (no entry, or any
\* exception) whatever the tickers JSON gives.
get_cik_for_ticker(world) ==
    IF world.atom = "listed" THEN Some(Cik) ELSE get_cik_from_tickers_json(world)

FirstN(s, n) == IF Len(s) <= n THEN s ELSE SubSeq(s, 1, n)

\* get_filings: raise_for_status lets an HTTP error leave; otherwise the
\* recent filings of the form asked for, in document order, at most DefaultCount.
get_filings(world, form_type) ==
    IF world.submissions.status = "error" THEN Raised("HTTPError")
    ELSE LET IsForm(f) == f.form = form_type
         IN  Gave(FirstN(SelectSeq(world.submissions.recent, IsForm), DefaultCount))

\* for f in filings: the first whose report year is the year asked for.
\* An empty report date is passed over; int() of a text that is no year
\* raises ValueError.
RECURSIVE FilingOfYear(_, _)
FilingOfYear(filings, year) ==
    IF filings = <<>> THEN Gave(None)
    ELSE LET report_date == Head(filings).report_date
         IN  IF report_date.kind = "none" THEN FilingOfYear(Tail(filings), year)
             ELSE IF report_date.kind = "bad" THEN Raised("ValueError")
             ELSE IF YearOf(report_date.day) = year THEN Gave(Some(Head(filings)))
             ELSE FilingOfYear(Tail(filings), year)

\* get_xbrl_facts: the company-facts document, or the HTTP error.
get_xbrl_facts(world) ==
    IF world.companyfacts.status = "error" THEN Raised("HTTPError")
    ELSE Gave(world.companyfacts)

\* extract_metadata: the period end is the report date, today when the
\* report date is empty; strptime raises ValueError on any other text.
\* The filing date is taken as well-formed.
extract_metadata(filing_info, today) ==
    IF filing_info.report_date.kind = "bad" THEN Raised("ValueError")
    ELSE LET period_end == IF filing_info.report_date.kind = "iso"
                           THEN filing_info.report_date.day
                           ELSE today
         IN  Gave([form_type |-> filing_info.form,
                       period_end |-> period_end,
                       fiscal_year |-> YearOf(period_end),
                       fiscal_period |-> IF filing_info.form = "10-K" THEN "FY" ELSE "Q"])

\* The exception that left parse_sec_filing at `line`, with the statements
\* assembled until then; no file is written.
Failure(exc, line, statements) ==
    [outcome |-> Raised(exc), line |-> line, filing_info |-> None,
     statements |-> statements, exported |-> None]

\* From the extractor's construction to the export (main.py 82-149).
ExtractAndExport(a, filing_info, metadata, facts_data) ==
    LET period_end == metadata.period_end
        call == [period_end |-> period_end,
                 period_start |-> IF a.form_type = "10-K"
                                  THEN Some(period_end - YearDays + 1)
                                  ELSE Some(period_end - 90),
                 fiscal_year |-> YearOf(period_end),
                 fiscal_period |-> IF a.form_type = "10-K" THEN "FY"
                                   ELSE metadata.fiscal_period,
                 form_type |-> Some(a.form_type)]
        instant == [call EXCEPT !.period_start = None]
        index == index_facts(facts_data)
        income_statement ==
            Outcome(AssembleRaises(index, INCOME_STATEMENT_TAGS, call),
                    extract_income_statement(index, call))
        balance_sheet ==
            Outcome(AssembleRaises(index, BALANCE_SHEET_TAGS, instant),
                    extract_balance_sheet(index, instant))
        cash_flow ==
            Outcome(AssembleRaises(index, CASH_FLOW_TAGS, call),
                    extract_cash_flow(index, call))
    IN  IF IsRaised(income_statement)
        THEN Failure(income_statement.raised, 105, <<>>)
        ELSE IF IsRaised(balance_sheet)
        THEN Failure(balance_sheet.raised, 110, <<income_statement>>)
        ELSE IF IsRaised(cash_flow)
        THEN Failure(cash_flow.raised, 115, <<income_statement, balance_sheet>>)
        ELSE [outcome |-> Gave(<<a.ticker, a.form_type, call.fiscal_year>>),
              line |-> 149,
              filing_info |-> Some(filing_info),
              statements |-> <<income_statement, balance_sheet, cash_flow>>,
              exported |-> Some([metadata |-> metadata,
                                 income_statement |-> income_statement,
                                 balance_sheet |-> balance_sheet,
                                 cash_flow_statement |-> cash_flow])]

\* parse_sec_filing(ticker, form_type, year) against the service `world`.
parse_sec_filing(a, world) ==
    LET cik == get_cik_for_ticker(world)
        filings == get_filings(world, a.form_type)
        chosen == IF a.year # None
                  THEN FilingOfYear(filings.gave, The(a.year))
                  ELSE Gave(Some(filings.gave[1]))
        xbrl == get_xbrl_facts(world)
        metadata == extract_metadata(The(chosen.gave), world.today)
    IN  IF cik = None THEN Failure("ValueError", 46, <<>>)
        ELSE IF IsRaised(filings) THEN Failure(filings.raised, 52, <<>>)
        ELSE IF filings.gave = <<>> THEN Failure("ValueError", 54, <<>>)
        ELSE IF IsRaised(chosen) THEN Failure(chosen.raised, 62, <<>>)
        ELSE IF chosen.gave = None THEN Failure("ValueError", 67, <<>>)
        ELSE IF IsRaised(xbrl) THEN Failure(xbrl.raised, 75, <<>>)
        ELSE IF xbrl.gave.body = "empty" THEN Failure("ValueError", 77, <<>>)
        ELSE IF IsRaised(metadata) THEN Failure(metadata.raised, 80, <<>>)
        ELSE ExtractAndExport(a, The(chosen.gave), metadata.gave,
                              xbrl.gave.facts)

\* The service as one run meets it. Atom feed and tickers JSON: the ticker
\* is listed, is not, or the request fails.
Lookups ==
    {[atom |-> "listed", tickers |-> "unlisted"]}
    \cup [atom : {"unlisted", "error"}, tickers : {"listed", "unlisted", "error"}]

\* Report dates of 2024 and 2023, an empty one, and a text that is no date.
FilingRows ==
    [form : {"10-K", "10-Q"}, report_date : {Iso(1), Iso(1 - YearDays), NoneStr, BadStr}]

Submissions ==
    {[status |-> "error", recent |-> <<>>]}
    \cup {[status |-> "ok", recent |-> recent] : recent \in SeqsUpTo(FilingRows, MaxFilings)}

RunRow(concept, obs) == [ns |-> "us-gaap", concept |-> concept, unit |-> "USD", obs |-> obs]

\* The company-facts document: the request fails; the body is {}; the body
\* has its keys and no observation; it has observations; one of them has a
\* number for end date.
CompanyFacts ==
    {[status |-> "error", body |-> "empty", facts |-> PayloadOf(<<>>, Namespaces)],
     [status |-> "ok", body |-> "empty", facts |-> PayloadOf(<<>>, Namespaces)],
     [status |-> "ok", body |-> "document", facts |-> PayloadOf(<<>>, Namespaces)]}
    \cup {[status |-> "ok", body |-> "document", facts |-> PayloadOf(Stamp(rows), Namespaces)] :
            rows \in {<<RunRow(TagRevenues, GoodObs), RunRow(TagAssets, GoodObs)>>,
                      <<RunRow(TagAssets, GoodObs),
                        RunRow(TagAssets, RawObs(NumberStr(20240930), "10-K", NoneStr, Num(0)))>>}}

\* date.today(): later than every report date.
Today == 400

Worlds ==
    {[atom |-> l.atom, tickers |-> l.tickers, submissions |-> s, companyfacts |-> c,
      today |-> Today] : l \in Lookups, s \in Submissions, c \in CompanyFacts}

RunArgs ==
    [ticker : {"AAPL"}, form_type : {"10-K"}, year : {None, Some(2024)}, world : Worlds]

InitRun ==
    /\ xbrl_facts = PayloadOf(<<>>, Namespaces)
    /\ facts_by_concept = EmptyIndex
    /\ op = "main"
    /\ args \in RunArgs
    /\ result = None
    /\ calls = NoCalls

\* parse_sec_filing(ticker, form_type, year, output_dir), as main() calls it.
\* The payload and the index are the run's own.
ParseSecFiling ==
    /\ op = "main"
    /\ op' = "parse_sec_filing"
    /\ result' = parse_sec_filing(args, args.world)
    /\ xbrl_facts' = IF result'.line >= 77 THEN args.world.companyfacts.facts ELSE xbrl_facts
    /\ facts_by_concept' = IF result'.line >= 103 THEN index_facts(xbrl_facts')
                           ELSE facts_by_concept
    /\ UNCHANGED <<args, calls>>

NextRun == ParseSecFiling

SpecRun == InitRun /\ [][NextRun]_vars

Ran == op = "parse_sec_filing"

\* The filings of the form asked for that the service lists.
FilingsAsked ==
    LET IsForm(f) == f.form = args.form_type
    IN  SelectSeq(args.world.submissions.recent, IsForm)

\* The run reached its service and no filing of the form type exists.
NoFilingOfForm ==
    /\ args.world.submissions.status = "ok"
    /\ FilingsAsked = <<>>

\* A year was asked for and no filing of the form type reports on it.
NoFilingOfYear ==
    /\ args.world.submissions.status = "ok"
    /\ args.year # None
    /\ \A i \in 1..Len(FilingsAsked) :
          ~(/\ FilingsAsked[i].report_date.kind = "iso"
            /\ YearOf(FilingsAsked[i].report_date.day) = The(args.year))

\* The company-facts document was delivered and holds no observation.
NoData ==
    /\ args.world.companyfacts.status = "ok"
    /\ \/ args.world.companyfacts.body = "empty"
       \/ \A ns \in DOMAIN args.world.companyfacts.facts :
             args.world.companyfacts.facts[ns] = <<>>

\* C19: with no filing of the form type, no filing of the requested year,
\* or a payload without data, the run raises before any statement is
\* assembled or any file written; and a run that writes its file had a
\* report date for its period and a payload with data.
C19_RunLevelFailuresExplicit ==
    Ran =>
        /\ (NoFilingOfForm \/ NoFilingOfYear \/ NoData) =>
              /\ IsRaised(result.outcome)
              /\ result.statements = <<>>
              /\ result.exported = None
        /\ result.exported # None =>
              /\ The(result.filing_info).report_date.kind = "iso"
              /\ ~NoData

\* The condition the run failed on is a not-found one: the ticker is listed
\* nowhere and no lookup failed, or the delivered documents hold no filing
\* or no data.
NotFoundCondition ==
    \/ /\ result.line = 46
       /\ args.world.atom = "unlisted"
       /\ args.world.tickers = "unlisted"
    \/ result.line \in {54, 67, 77}

\* C20: of the failures that reach the caller, the not-found ones, and only
\* they, are ValueError.
C20_FailureTyping ==
    (Ran /\ IsRaised(result.outcome)) =>
        (result.outcome.raised = "ValueError" <=> NotFoundCondition)

\* ------------------------------------------------- the index after queries

\* extract_segments: a SegmentData without segments; the index is not read.
extract_segments(a) ==
    [period_end |-> a.period_end,
     fiscal_year |-> a.fiscal_year,
     fiscal_period |-> a.fiscal_period,
     business_segments |-> <<>>,
     geographic_segments |-> <<>>]

ExtractSegments ==
    \E a \in ExtractArgs :
        /\ op' = "extract_segments"
        /\ args' = a
        /\ result' = extract_segments(a)
        /\ calls' = Logged(op', args', result')
        /\ UNCHANGED <<xbrl_facts, facts_by_concept>>

\* Direct queries of the resolver on the extractor's payloads.
FrameArgs ==
    {a \in FindArgs : /\ a.tag_candidates = <<TagA, TagB>>
                      /\ a.period_end = 1
                      /\ a.period_start = None
                      /\ a.form_type # None}

InitFrame ==
    /\ xbrl_facts \in Payloads
    /\ facts_by_concept = index_facts(xbrl_facts)
    /\ op = "call"
    /\ args \in FrameArgs
    /\ result = NoResult
    /\ calls = NoCalls

NextFrame == FindFactValue \/ Next \/ ExtractSegments

SpecFrame == InitFrame /\ [][NextFrame]_vars

\* C21: no call of the resolver or of an extract operation changes the
\* index (key set, content and order of every list) or the raw payload, and
\* the index stays the one the constructor built from the payload.
C21_IndexReadOnly ==
    /\ [](facts_by_concept = index_facts(xbrl_facts))
    /\ [][facts_by_concept' = facts_by_concept /\ xbrl_facts' = xbrl_facts]_vars

\* C21 witness: an operation has gone over a list of the index that is not
\* in descending order of period end, so sorting it in place would show.
C21_Witness ==
    /\ op \in {"_find_fact_value", "extract_income_statement", "extract_cash_flow"}
    /\ TagA \in DOMAIN facts_by_concept
    /\ Len(facts_by_concept[TagA]) >= 2
    /\ sorted_facts(facts_by_concept[TagA]) # facts_by_concept[TagA]

\* ------------------------------------------ order within the winning candidate

\* C22: among the acceptable observations of the winning candidate, the one
\* returned has the latest period end, however near the target another one
\* ends.
C22_LatestNotClosest ==
    (Found /\ result[2] # None) =>
        \E f \in Range(Facts(The(result[2]))) :
            /\ Accepts(f, args)
            /\ Returned(f, The(result[2]))
            /\ \A g \in Range(Facts(The(result[2]))) :
                  Accepts(g, args) => g.end.day <= f.end.day

\* C22 witness: the winning candidate has an acceptable observation one day
\* from the target and one ending four days after the target; the later one
\* is returned.
C22_Witness ==
    /\ Found /\ result[2] # None
    /\ \E f, g \in Range(Facts(The(result[2]))) :
          /\ Accepts(f, args) /\ Accepts(g, args)
          /\ f.end.day = args.period_end + 4
          /\ Abs(g.end.day - args.period_end) = 1
          /\ Returned(f, The(result[2]))

\* ------------------------------------------------- equal period ends

\* Observations of one concept ending the same day or the next, filed on
\* two dates under two accession numbers.
TieObs ==
    {[RawObs(e, "10-K", NoneStr, Num(0)) EXCEPT !.filed = fd, !.accn = ac] :
        e \in {Iso(1), Iso(2)},
        fd \in {Iso(0), Iso(30)},
        ac \in {"0000000000-24-000001", "0000000000-24-000002"}}

TieRows ==
    [ns : {"us-gaap", "dei"}, concept : {TagA}, unit : {"USD", "EUR"}, obs : TieObs]

TiePayloads ==
    {PayloadOf(Stamp(rows), {"us-gaap", "dei"}) : rows \in SeqsUpTo(TieRows, MaxFacts)}

TieArgs ==
    {a \in FindArgs : /\ a.tag_candidates = <<TagA, TagB>>
                      /\ a.period_end = 1
                      /\ a.period_start = None}

InitTie ==
    /\ xbrl_facts \in TiePayloads
    /\ facts_by_concept = index_facts(xbrl_facts)
    /\ op = "call"
    /\ args \in TieArgs
    /\ result = NoResult
    /\ calls = NoCalls

SpecTie == InitTie /\ [][NextFind]_vars

\* Place p of the payload is read before place q of the same concept by the
\* indexer: us-gaap before dei, then the order of the units, then the order
\* of the array.
PlaceBefore(p, q) ==
    \/ p[1] = "us-gaap" /\ q[1] = "dei"
    \/ /\ p[1] = q[1]
       /\ \/ p[3] < q[3]
          \/ p[3] = q[3] /\ p[4] < q[4]

\* C23: the returned observation is an acceptable one of the winning
\* candidate; every other acceptable one ends earlier, or ends the same day
\* and comes later in the payload's reading order, whatever the filing
\* dates and accession numbers.
C23_EqualEndsFirstIndexed ==
    (Found /\ result[2] # None) =>
        LET tag == The(result[2])
            acceptable == {p \in RawPlaces(tag) : Accepts(TaggedAt(p), args)}
        IN  \E p \in acceptable :
                /\ Returned(TaggedAt(p), tag)
                /\ \A q \in acceptable \ {p} :
                      \/ TaggedAt(q).end.day < TaggedAt(p).end.day
                      \/ /\ TaggedAt(q).end = TaggedAt(p).end
                         /\ PlaceBefore(p, q)

\* C23 witness: two acceptable observations end the same day, in two
\* namespaces or units; the one read first is returned although the other
\* was filed later.
C23_Witness ==
    /\ Found /\ result[2] # None
    /\ \E p, q \in RawPlaces(The(result[2])) :
          /\ Accepts(TaggedAt(p), args) /\ Accepts(TaggedAt(q), args)
          /\ TaggedAt(p).end = TaggedAt(q).end
          /\ p[1] # q[1] \/ p[3] # q[3]
          /\ TaggedAt(q).filed.day > TaggedAt(p).filed.day
          /\ TaggedAt(q).accn # TaggedAt(p).accn
          /\ Returned(TaggedAt(p), The(result[2]))

\* --------------------------------------------- fiscal year and fiscal period

FiscalYears == {2023, 2024, 2025}

FiscalPeriods == {"FY", "Q1"}

\* Observations ending the same day, labelled with two fiscal years and two
\* fiscal periods.
FiscalRows ==
    {[ns |-> "us-gaap", concept |-> c, unit |-> "USD",
      obs |-> [RawObs(Iso(1), "10-K", NoneStr, Num(0)) EXCEPT !.fy = y, !.fp = p]] :
        c \in {TagA, TagB}, y \in {2023, 2024}, p \in FiscalPeriods}

FiscalPayloads ==
    {PayloadOf(Stamp(rows), Namespaces) : rows \in SeqsUpTo(FiscalRows, MaxFacts)}

FiscalArgs ==
    {[a EXCEPT !.fiscal_year = y, !.fiscal_period = p] :
        a \in {b \in FindArgs : /\ b.tag_candidates = <<TagA, TagB>>
                                /\ b.period_end = 1
                                /\ b.period_start = None
                                /\ b.form_type # None},
        y \in {2024, 2025}, p \in FiscalPeriods}

InitFiscal ==
    /\ xbrl_facts \in FiscalPayloads
    /\ facts_by_concept = index_facts(xbrl_facts)
    /\ op = "call"
    /\ args \in FiscalArgs
    /\ result = NoResult
    /\ calls = NoCalls

NextFiscal == FindFactValue \/ Next

SpecFiscal == InitFiscal /\ [][NextFiscal]_vars

\* The call made, with another fiscal year and fiscal period.
WithFiscal(y, p) == [args EXCEPT !.fiscal_year = y, !.fiscal_period = p]

ProvenanceRows ==
    [ns : {"us-gaap"}, concept : {TagA, TagB}, unit : {"USD"},
     obs : {RawObs(Iso(1), "10-K", NoneStr, v) : v \in {NoneVal, Num(0)}}]
    \cup [ns : {"us-gaap"}, concept : {TagA}, unit : {"USD"},
          obs : {RawObs(Iso(1), "10-Q", NoneStr, Num(0))}]

ProvenancePayloads ==
    {PayloadOf(Stamp(rows), Namespaces) : rows \in SeqsUpTo(ProvenanceRows, MaxFacts)}

ProvenanceArgs ==
    {a \in FindArgs : a.period_end = 1 /\ a.period_start = None /\ a.form_type # None}

InitProvenance ==
    /\ xbrl_facts \in ProvenancePayloads
    /\ facts_by_concept = index_facts(xbrl_facts)
    /\ op = "call"
    /\ args \in ProvenanceArgs
    /\ result = NoResult
    /\ calls = NoCalls

SpecProvenance == InitProvenance /\ [][NextFiscal]_vars

\* C25: the resolver returns a value exactly when it returns a tag; the tag
\* is one of the candidates passed in and a key of the index, and the value
\* is that of one of the tag's indexed observations. Every line item of an
\* assembled statement carries a tag of its key's candidate list with the
\* value of one of that tag's observations.
C25_Provenance ==
    /\ Found =>
          /\ (result[1] = None) <=> (result[2] = None)
          /\ result[2] # None =>
                /\ The(result[2]) \in Range(args.tag_candidates)
                /\ The(result[2]) \in DOMAIN facts_by_concept
                /\ \E f \in Range(Facts(The(result[2]))) : Returned(f, The(result[2]))
    /\ Extracted =>
          \A i \in DOMAIN result.line_items :
              LET key == result.line_items[i].key
                  item == result.line_items[i].item
              IN  /\ item.xbrl_tag # ""
                  /\ item.xbrl_tag \in Range(EntryOf(key).tags)
                  /\ item.xbrl_tag \in DOMAIN facts_by_concept
                  /\ \E f \in Range(Facts(item.xbrl_tag)) :
                        f.value.kind = "num" /\ item.value = Some(f.value.num)

\* C25 witness: an income statement whose net_income comes from the second
\* candidate, the first being in the index without a usable value.
C25_Witness ==
    /\ op = "extract_income_statement"
    /\ TagA \in DOMAIN facts_by_concept
    /\ \E i \in DOMAIN result.line_items :
          /\ result.line_items[i].key = "net_income"
          /\ result.line_items[i].item.xbrl_tag = TagB

\* ----------------------------------------------------- periods of line items

\* C26: every line item of an assembled statement records the period end
\* and period start of the call, which are the statement's own (no period
\* start for the balance sheet), whatever the dates of the observation that
\* was matched.
C26_ItemsCarryTargetPeriod ==
    Extracted =>
        /\ result.period_end = args.period_end
        /\ result.period_start = args.period_start
        /\ op = "extract_balance_sheet" => result.period_start = None
        /\ \A i \in DOMAIN result.line_items :
              /\ result.line_items[i].item.period_end = result.period_end
              /\ result.line_items[i].item.period_start = result.period_start

\* C26 witness: a line item whose matched observation ends on another day
\* than the period end it records.
C26_Witness ==
    /\ Extracted
    /\ \E i \in DOMAIN result.line_items :
          LET item == result.line_items[i].item
          IN  \E f \in Range(Facts(item.xbrl_tag)) :
                  /\ item.value = Some(f.value.num)
                  /\ f.value.num > 1000
                  /\ f.end.day # item.period_end

\* ------------------------------------------------ net income on two statements

\* The candidates of a key in a tag table.
CandidatesOf(table, key) == (CHOOSE e \in Range(table) : e.key = key).tags

\* C27: the candidates of net_income_cf are a prefix of those of
\* net_income, and whenever a cash-flow statement holds net_income_cf, the
\* income statement of the same extractor for the same period and form type
\* holds net_income with the same value and the same tag.
C27_NetIncomeAgrees ==
    /\ IsPrefix(CandidatesOf(CASH_FLOW_TAGS, "net_income_cf"),
                CandidatesOf(INCOME_STATEMENT_TAGS, "net_income"))
    /\ (op = "extract_cash_flow" /\ HasItem(result, "net_income_cf")) =>
          LET income_statement == extract_income_statement(facts_by_concept, args)
          IN  /\ HasItem(income_statement, "net_income")
              /\ ItemOf(income_statement, "net_income").value
                    = ItemOf(result, "net_income_cf").value
              /\ ItemOf(income_statement, "net_income").xbrl_tag
                    = ItemOf(result, "net_income_cf").xbrl_tag

\* C27 witness: both candidates have a usable observation, with two values,
\* and the cash-flow statement holds net_income_cf.
C27_Witness ==
    /\ op = "extract_cash_flow"
    /\ HasItem(result, "net_income_cf")
    /\ \E f \in Range(Facts(TagA)), g \in Range(Facts(TagB)) :
          /\ f.value.kind = "num" /\ g.value.kind = "num"
          /\ f.form = "10-K"
          /\ f.value # g.value

\* ------------------------------------------------- the per-share substring

\* Every Logical Item Key of the three tag tables.
TableKeys ==
    {INCOME_STATEMENT_TAGS[i].key : i \in DOMAIN INCOME_STATEMENT_TAGS}
        \cup {BALANCE_SHEET_TAGS[i].key : i \in DOMAIN BALANCE_SHEET_TAGS}
        \cup {CASH_FLOW_TAGS[i].key : i \in DOMAIN CASH_FLOW_TAGS}

EpsKeys == {"eps_basic", "eps_diluted"}

\* C28: among the keys of the three tag tables the only ones containing
\* "eps" are eps_basic and eps_diluted, so the exporter divides the display
\* value of every other key by 1,000 (prepaid_expenses, debt_repayment and
\* depreciation_amortization included), and every value it wrote for a key
\* other than the two is the display value divided by 1,000. The tables are
\* module constants: their keys are classified once, on construction.
C28_EpsKeysOnly ==
    /\ op = "__init__" =>
          /\ {key \in TableKeys : Contains(lower(key), "eps")} = EpsKeys
          /\ \A key \in TableKeys \ EpsKeys :
                ExportScale(key, 12345000) = Quotient(12345000, Thousand)
    /\ Written =>
          \A i \in DOMAIN args.line_items :
              LET key == args.line_items[i].key
                  item == args.line_items[i].item
              IN  key \notin EpsKeys =>
                      WrittenFor(item.label)
                          = Quotient(The(display_value(item)), Thousand)

\* C28 witness: an exported income statement holding a share count and a
\* per-share value, the share count written divided and the per-share value
\* as it is.
C28_Witness ==
    /\ op = "_write_income_statement"
    /\ HasItem(args, "shares_basic")
    /\ HasItem(args, "eps_basic")
    /\ WrittenFor(ItemOf(args, "shares_basic").label) = Quotient(1000000, Thousand)
    /\ WrittenFor(ItemOf(args, "eps_basic").label) = Quotient(3, 1)

\* ---------------------------------------------------------- export coverage

\* The row-order lists of a sheet, in the order they are written.
SheetOrder(statement_type) ==
    CASE statement_type = "income_statement" -> line_order
      [] statement_type = "balance_sheet" ->
            assets_order \o liabilities_order \o equity_order
      [] statement_type = "cash_flow" ->
            operating_order \o investing_order \o financing_order \o net_change_order

\* The tag table a sheet's statement is assembled from.
SheetTable(statement_type) ==
    CASE statement_type = "income_statement" -> INCOME_STATEMENT_TAGS
      [] statement_type = "balance_sheet" -> BALANCE_SHEET_TAGS
      [] statement_type = "cash_flow" -> CASH_FLOW_TAGS

\* The positions of a sheet's row-order lists that name a key.
RowsNaming(statement_type, key) ==
    {i \in DOMAIN SheetOrder(statement_type) :
        SheetOrder(statement_type)[i].key = Some(key)}

\* C29: every key of each tag table is named exactly once in the row-order
\* lists of its sheet, and an export writes one row for each line item of the
\* statement and none for a key the statement lacks: as many rows as line
\* items, each line item's label on exactly one of them, every row a line
\* item's, no two on the same row number. The lists are literals: they are
\* compared with the tables once, on construction.
C29_ExportCoverage ==
    /\ op = "__init__" =>
          \A statement_type \in {"income_statement", "balance_sheet", "cash_flow"} :
              \A i \in DOMAIN SheetTable(statement_type) :
                  Cardinality(RowsNaming(statement_type,
                                         SheetTable(statement_type)[i].key)) = 1
    /\ Written =>
          /\ Len(result) = Len(args.line_items)
          /\ \A i \in DOMAIN args.line_items :
                Cardinality(CellsOf(args.line_items[i].item.label)) = 1
          /\ \A j \in DOMAIN result :
                \E i \in DOMAIN args.line_items :
                    /\ result[j].label = args.line_items[i].item.label
                    /\ Cardinality(RowsNaming(args.statement_type,
                                              args.line_items[i].key)) = 1
          /\ \A j, k \in DOMAIN result : j # k => result[j].row # result[k].row

\* C29 witness: an exported income statement holding revenue and eps_basic
\* and lacking cost_of_revenue: two rows, revenue on the first data row and
\* the per-share value two rows below it, after the spacer.
C29_Witness ==
    /\ op = "_write_income_statement"
    /\ KeysOf(args) = {"revenue", "eps_basic"}
    /\ Len(result) = 2
    /\ result[1].label = ItemOf(args, "revenue").label
    /\ result[1].row = HeaderRows + 1
    /\ result[2].label = ItemOf(args, "eps_basic").label
    /\ result[2].row = HeaderRows + 3

\* ------------------------------------------- the period of an annual report

\* The run model above counts days in years of equal length; the calendar is
\* modelled here, where the day of the month matters.
IsLeap(year) == (year % 4 = 0 /\ year % 100 # 0) \/ year % 400 = 0

DaysInMonth(year, month) ==
    IF month = 2 THEN (IF IsLeap(year) THEN 29 ELSE 28)
    ELSE IF month \in {4, 6, 9, 11} THEN 30
    ELSE 31

\* datetime.date(year, month, day): ValueError when the month has no such day.
date(year, month, day) ==
    IF month \in 1..12 /\ day \in 1..DaysInMonth(year, month)
    THEN Gave([year |-> year, month |-> month, day |-> day])
    ELSE Raised("ValueError")

YearLength(year) == IF IsLeap(year) THEN 366 ELSE 365

\* The days of a year before the first of a month.
RECURSIVE DaysBeforeMonth(_, _)
DaysBeforeMonth(year, month) ==
    IF month = 1 THEN 0
    ELSE DaysBeforeMonth(year, month - 1) + DaysInMonth(year, month - 1)

\* The n-th day of a year.
DayOfYear(year, n) ==
    LET month == CHOOSE m \in 1..12 :
                     /\ DaysBeforeMonth(year, m) < n
                     /\ n <= DaysBeforeMonth(year, m) + DaysInMonth(year, m)
    IN  [year |-> year, month |-> month, day |-> n - DaysBeforeMonth(year, month)]

\* d + timedelta(days=days), for less than a year either way.
PlusDays(d, days) ==
    LET n == DaysBeforeMonth(d.year, d.month) + d.day + days
    IN  IF n < 1 THEN DayOfYear(d.year - 1, n + YearLength(d.year - 1))
        ELSE IF n > YearLength(d.year) THEN DayOfYear(d.year + 1, n - YearLength(d.year))
        ELSE DayOfYear(d.year, n)

\* The arguments the three extract calls are made with.
Parameters(period_end, period_start, fiscal_period, form_type) ==
    [period_end |-> period_end,
     period_start |-> period_start,
     fiscal_year |-> period_end.year,
     fiscal_period |-> fiscal_period,
     form_type |-> form_type]

\* parse_sec_filing, main.py 84-99: the period of the run.
RunParameters(period_end, form_type, metadata_fiscal_period) ==
    LET year_before == date(period_end.year - 1, period_end.month, period_end.day)
        period_start ==
            IF form_type = "10-K"
            THEN IF IsRaised(year_before)
                 THEN PlusDays(date(period_end.year - 1, period_end.month, 1).gave,
                               period_end.day)
                 ELSE PlusDays(year_before.gave, 1)
            ELSE PlusDays(period_end, -90)
    IN  Gave(Parameters(period_end, period_start,
                        IF form_type = "10-K" THEN "FY" ELSE metadata_fiscal_period,
                        form_type))

\* verify_data.fetch_sec_data 96-115 and BatchVerifier.verify_file 118-127:
\* the same expression outside any try, the form type and the fiscal period
\* literals.
ScriptParameters(period_end) ==
    LET year_before == date(period_end.year - 1, period_end.month, period_end.day)
    IN  IF IsRaised(year_before) THEN year_before
        ELSE Gave(Parameters(period_end, PlusDays(year_before.gave, 1), "FY", "10-K"))

PeriodYears == {2023, 2024, 2025}

\* The period ends a filing can report: every day of these years.
PeriodEnds(year, month) == {date(year, month, day).gave : day \in 1..DaysInMonth(year, month)}

InitPeriod ==
    /\ xbrl_facts = PayloadOf(<<>>, Namespaces)
    /\ facts_by_concept = index_facts(xbrl_facts)
    /\ op = "__init__"
    /\ args = None
    /\ result = None
    /\ calls = NoCalls

\* parse_sec_filing from the metadata to the extract calls: the report's
\* period end and form in args, the arguments of the extraction in result.
ParsePeriod ==
    /\ op = "__init__"
    /\ \E year \in PeriodYears, month \in 1..12, form_type \in {"10-K", "10-Q"} :
          \E period_end \in PeriodEnds(year, month) :
              /\ args' = [period_end |-> period_end, form_type |-> form_type,
                          exported |-> RunParameters(period_end, form_type, "Q")]
              /\ result' = [extraction |-> RunParameters(period_end, form_type, "Q"),
                            status |-> "returned"]
    /\ op' = "parse_sec_filing"
    /\ UNCHANGED <<xbrl_facts, facts_by_concept, calls>>

\* An annual report was exported: the file the scripts are run on.
Exported ==
    /\ op \in {"parse_sec_filing", "fetch_sec_data", "BatchVerifier.verify_file"}
    /\ args.form_type = "10-K"

\* A script re-extracts the filing of the exported file.
Verify(name, status_raised, status_returned) ==
    /\ op' = name
    /\ result' = [extraction |-> ScriptParameters(args.period_end),
                  status |-> IF IsRaised(ScriptParameters(args.period_end))
                             THEN status_raised ELSE status_returned]
    /\ UNCHANGED <<xbrl_facts, facts_by_concept, args, calls>>

\* verify_data.fetch_sec_data: the exception leaves the function.
FetchSecData ==
    /\ Exported
    /\ Verify("fetch_sec_data", "raised", "returned")

\* BatchVerifier.verify_file: the exception is caught at the end of the
\* method and the file is reported with status 'error', nothing compared.
BatchVerifyFile ==
    /\ Exported
    /\ Verify("BatchVerifier.verify_file", "error", "compared")

NextPeriod == ParsePeriod \/ FetchSecData \/ BatchVerifyFile

SpecPeriod == InitPeriod /\ [][NextPeriod]_vars

Verified == op \in {"fetch_sec_data", "BatchVerifier.verify_file"}

\* On every period end but a leap day the scripts extract with the
\* parameters of the run.
AgreeOffLeapDay ==
    (Verified /\ ~(args.period_end.month = 2 /\ args.period_end.day = 29)) =>
        /\ ~IsRaised(result.extraction)
        /\ result.extraction = args.exported

\* C30: for every 10-K period end, 29 February included, fetch_sec_data and
\* verify_file determine the period start, fiscal year, fiscal period and
\* form type parse_sec_filing determines, and do not raise.
C30_SameParameters ==
    Verified =>
        /\ ~IsRaised(result.extraction)
        /\ result.status \in {"returned", "compared"}
        /\ result.extraction = args.exported

====
